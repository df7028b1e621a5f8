\* Four calls over a queue of two.
CONSTANTS
  c1 = c1
  c2 = c2
  c3 = c3
  c4 = c4
  Calls <- MCCalls
  NoCall = NoCall
  maxQueueLength = 2

SPECIFICATION QueueFairSpec

INVARIANTS
  QueueTypeOK
  QueueBounded
  PendingIsPlaced
  NoIdleLane
  TimersMatchItems
  ServedInOrder

PROPERTIES
  AnsweredOnce
  WaitIsBounded
  ImplementsLane

\* Every call is enqueued once, so the system stops when all are answered.
CHECK_DEADLOCK FALSE
