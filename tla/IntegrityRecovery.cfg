SPECIFICATION FairSpec
CONSTANTS
  Files = {f1}
  Contents = {c1, c2}
  TaskIds = {t1, t2, t3, t4}
  MaxEdits = 0
  MaxFaults = 1
  Faults = {"loop timeout", "request timeout", "report timeout", "file timeout", "lock timeout",
            "connection", "restart", "read", "disk"}
PROPERTIES Converges
