CONSTANTS
  a = a
  b = b
  v = v
  nan = nan
  Nil = Nil
  CNames = {a}
  GNames = {a}
  Finite = {v}
  NonFinite = {nan}
  Half = 1
  Deltas <- MCDeltas
  Batches <- MCOneBatch
  Restore = TRUE
  Periodic = TRUE
  IOErrors = FALSE
SPECIFICATION Spec
INVARIANT NoTickerPanic
CHECK_DEADLOCK FALSE
