SPECIFICATION FairSpec
CONSTANTS
  g1 = g1
  g2 = g2
  g3 = g3
  Goroutine = {g1, g2, g3}
  Calls <- Division
  MaxRemap = 1
  MaxFree = 1
  HardLimit = 0
  None = None
INVARIANTS ReadersMapped NoWaitCycle BackupPinned
PROPERTIES EveryCallReturns
CHECK_DEADLOCK FALSE
