SPECIFICATION FairSpec
CONSTANTS
  Calls = {c1, c2}
  w1 = w1
  w2 = w2
  Workers = {w1, w2}
  Master = Master
  Routes <- MCRoutes
  None = None
  MaxFaults = 1
INVARIANTS OnePlace
PROPERTIES ImplementsRemoteCalls QueuesMoveOn CallersAreAnswered
CHECK_DEADLOCK FALSE
