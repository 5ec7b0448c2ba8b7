CONSTANTS
  w1 = w1
  w2 = w2
  Workers = {w1, w2}
  QueueSize = 1
  Task = {1, 2, 3, 4}
  NoTask = NoTask
  Alloc = Alloc
  Sys = Sys
  NumGC = NumGC
  FreeMemory = FreeMemory
  KeyFields = {Alloc, Sys}
  RuntimeFields = {NumGC}
  GopsutilFields = {FreeMemory}
  MaxPolls = 3
  MaxReports = 3
  MetricsCount = 31
  Capacity = 20
  Attempts = 2
  Delays = 1
  NoBatch = NoBatch
SPECIFICATION PartsSpec
INVARIANTS MergeKeepsLast ReadsWholePoll StartedInOrder StatsAddUp PostsOwnMetrics StopCovers
PROPERTIES StopEnds AcceptedRuns UnlimitedEnds
CHECK_DEADLOCK FALSE
