SPECIFICATION Spec
CONSTANTS
  Root = 4
  MaxPgid = 6
  MaxTxid = 1
  FreelistType = "hashmap"
  PageWords = 3
  RegionPages = 4
  MaxCount = 2
INVARIANTS AllocatesLikeASet RegionsReadBack
PROPERTIES ImplementsFreeSet
