CONSTANTS
  w1 = w1
  Workers = {w1}
  QueueSize = 2
  Task = {1, 2, 3}
  NoTask = NoTask
  MaxReports = 3
  MaxPolls = 1
  Attempts = 2
  Delays = 1
SPECIFICATION Spec
INVARIANT NoPanic
CHECK_DEADLOCK FALSE
