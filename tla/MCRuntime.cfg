\* Three calls over a queue of one, two plugin windows, two connections.
CONSTANTS
  c1 = c1
  c2 = c2
  c3 = c3
  p1 = p1
  p2 = p2
  Calls <- MCCalls
  Plugins <- MCPlugins
  NoCall = NoCall
  maxQueueLength = 1
  MaxConns = 2
  RecentCap = 1

SYMMETRY MCSymmetry

SPECIFICATION Spec

INVARIANTS
  RuntimeTypeOK
  PendingIsActive
  TimerIffPending
  PairingConsistent
  UnsentIsUntouched
  OrphansAreLateAnswers

PROPERTIES
  DisconnectIsReal
  ImplementsRemoteCommand

\* Every call is made once, so the system stops when all are answered.
CHECK_DEADLOCK FALSE
