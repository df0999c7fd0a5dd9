SPECIFICATION CursorSpec
CONSTANTS
  PageSize = 128
  KeySize = 8
  FillPercent = 50
  FirstPage = 4
  Key = {1, 2, 3, 4, 5, 6, 7, 8, 9, 10, 11, 12, 13}
  Value = {8, 120}
  Plan <- Plans
  Nil = Nil
  Panic = Panic
  MaxN = 3
INVARIANTS HoldsMap NoFaults NoPageLost Balanced ItemsReadBack PositionsExactly
PROPERTIES CopyOnWrite StepsToNeighbour
