CONSTANTS
  a = a
  b = b
  v = v
  nan = nan
  Nil = Nil
  CNames = {a, b}
  GNames = {a}
  Finite = {v}
  NonFinite = {nan}
  Half = 1
  Deltas <- MCDeltas
  Batches <- MCBatches
  Restore = TRUE
  Periodic = TRUE
  IOErrors = TRUE
SPECIFICATION FairSpec
INVARIANTS TypeOK SnapshotExact DurableClose
PROPERTIES RestartRestores RefinesStore SaverStops CloseReturns
CHECK_DEADLOCK FALSE
