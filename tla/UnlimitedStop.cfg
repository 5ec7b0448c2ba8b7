CONSTANTS
  MaxReports = 2
  MetricsCount = 31
  Capacity = 20
  Attempts = 2
  Delays = 1
  NoBatch = NoBatch
SPECIFICATION Spec
INVARIANT StopWaitsForAll
CHECK_DEADLOCK FALSE
