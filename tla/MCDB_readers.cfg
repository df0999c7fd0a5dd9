SPECIFICATION Spec
CONSTANTS
  Root = 4
  MaxPgid = 6
  MaxTxid = 6
  MaxTag = 6
  MaxRun = 2
  MaxCrash = 0
  HardLimitPendingPages = 9
  FreelistType = "hashmap"
  Reader = {r1, r2}
  r1 = r1
  r2 = r2
  Faults = {}
SYMMETRY Symmetry
INVARIANTS SnapshotIntact FreePagesIsLoop NoLeak
PROPERTIES ReclaimsAll
CHECK_DEADLOCK FALSE
