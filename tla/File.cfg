SPECIFICATION Spec
CONSTANTS
  InitSize = 3
  MinMmap = 2
  MaxMmapStep = 8
  MaxMapSize = 16
  AllocSize = 4
  InitialMmap = {0, 7}
  NoGrowSync = {FALSE, TRUE}
  MaxRun = 3
  PageKB = 16384
  OptionKB = {4, 16384}
  MaxOpen = 1
INVARIANTS CommittedInFile CommittedInMapping PageSizeRecovered
CHECK_DEADLOCK FALSE
