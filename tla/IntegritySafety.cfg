SPECIFICATION FairSpec
CONSTANTS
  Files = {f1, f2}
  Contents = {c1, c2}
  TaskIds = {t1, t2, t3, t4}
  MaxEdits = 1
  MaxFaults = 2
  Faults = {"connection", "disk", "report timeout"}
INVARIANTS LocksAreOwned SyncsDoNotOverlap ComparedStatusIsCurrent
PROPERTIES ImplementsReplica Converges
