CONSTANTS
  e1 = e1
  e2 = e2
  Events = {e1, e2}
  AuditFile = TRUE
  AuditURL = TRUE
  Attempts = 2
  Closer = Closer
  Free = Free
SPECIFICATION AuditSpec
INVARIANT ServerErrorsRetried
CHECK_DEADLOCK FALSE
