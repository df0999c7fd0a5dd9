SPECIFICATION FairSpec
CONSTANTS
  Call = {c1, c2, c3}
  c1 = c1
  c2 = c2
  c3 = c3
  MaxBatches = 3
  MaxBatchSize = 2
INVARIANTS ExactlyOnce NeverLost
PROPERTIES EveryCallReturns
