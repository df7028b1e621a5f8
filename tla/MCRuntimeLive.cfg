\* Two calls over a queue of one, two plugin windows, two connections;
\* the coordinator's own steps are fair.
CONSTANTS
  c1 = c1
  c2 = c2
  c3 = c3
  p1 = p1
  p2 = p2
  Calls <- MCTwoCalls
  Plugins <- MCPlugins
  NoCall = NoCall
  maxQueueLength = 1
  MaxConns = 2
  RecentCap = 1

SPECIFICATION FairSpec

PROPERTIES
  EveryCallAnswered

\* Every call is made once, so the system stops when all are answered.
CHECK_DEADLOCK FALSE
