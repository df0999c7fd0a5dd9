SPECIFICATION Spec
CONSTANTS
  Root = 4
  MaxPgid = 6
  MaxTxid = 4
  MaxTag = 4
  MaxRun = 1
  MaxCrash = 1
  HardLimitPendingPages = 9
  FreelistType = "array"
  Reader = {r1, r2}
  r1 = r1
  r2 = r2
  Faults = {"panic", "write", "sync", "meta", "grow", "mmap", "remap", "crash"}
INVARIANTS BooksInv SnapshotIntact NoDoubleUse NoLeak Recoverable
PROPERTIES ImplementsSnapshot
CHECK_DEADLOCK FALSE
