SPECIFICATION BackupSpec
CONSTANTS
  Root = 4
  MaxPgid = 6
  MaxTxid = 4
  MaxTag = 4
  MaxRun = 1
  MaxCrash = 1
  HardLimitPendingPages = 9
  FreelistType = "array"
  Copier = copier
  Reader = {copier, other}
  Faults = {"write", "meta"}
  WriterFails = {"meta", "data"}
INVARIANTS CopyIsDatabase
CHECK_DEADLOCK FALSE
