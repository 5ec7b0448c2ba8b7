CONSTANTS
  w1 = w1
  Workers = {w1}
  QueueSize = 2
  Task = {1, 2, 3}
  NoTask = NoTask
  MaxReports = 3
  MaxPolls = 2
  Attempts = 2
  Delays = 1
SPECIFICATION FairSpec
INVARIANTS PollsReportedOnce DeliveryBounded ExitIsQuiet
PROPERTIES AgentImplementsPool ShutdownEnds
CHECK_DEADLOCK FALSE
