SPECIFICATION Spec
CONSTANTS
  Root = 4
  MaxPgid = 6
  MaxTxid = 4
  MaxTag = 4
  MaxRun = 1
  MaxCrash = 1
  HardLimitPendingPages = 9
  FreelistType = "array"
  Reader = {}
  Faults = {"assert", "kill", "metasync"}
INVARIANTS NoDoubleUse Recoverable
CHECK_DEADLOCK FALSE
