SPECIFICATION CompactSpec
CONSTANTS
  Name = {1, 2}
  Value = {1, 3}
  MaxInline = 2
  MaxDepth = 3
  Plan <- Plans
  None = None
INVARIANTS HoldsMap PagesUsedOnce StatsMatch CopiesSource
