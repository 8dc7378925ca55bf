SPECIFICATION FairSpec
CONSTANTS
  NumAgents = 2
  MismatchLimit = 2
  TaskIds = {t1, t2, t3, t4}
  MaxPending = 2
  MaxEdits = 2
  MaxFaults = 2
  Faults = {"database", "string", "rows", "request", "connection", "restart"}
INVARIANTS TypeOK ChangesAreNotLost
PROPERTIES BroadcastsInOrder Converges
