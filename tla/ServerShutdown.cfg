CONSTANTS
  r1 = r1
  r2 = r2
  r3 = r3
  Requests = {r1, r2, r3}
  Limit = 2
  AuditFile = TRUE
SPECIFICATION FairSpec
INVARIANTS CountsExact GracefulSaves
PROPERTY ResourcesGetClosed
CHECK_DEADLOCK FALSE
