SPECIFICATION Spec
CONSTANTS
  Root = 4
  MaxPgid = 6
  MaxTxid = 4
  MaxTag = 4
  MaxRun = 1
  MaxCrash = 0
  HardLimitPendingPages = 9
  FreelistType = "hashmap"
  Reader = {r1}
  r1 = r1
  Faults = {"panic"}
INVARIANTS SnapshotIntact
CHECK_DEADLOCK FALSE
