SPECIFICATION SurgerySpec
CONSTANTS
  PageSize = 128
  KeySize = 8
  FillPercent = 50
  FirstPage = 4
  Key = {1, 2, 3, 4, 5, 6}
  Value = {8, 300}
  Plan <- Plans
  MaxCuts = 1
INVARIANTS BothStatesConsistent AcceptedIsSearchable
