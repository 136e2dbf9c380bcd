CONSTANTS
  t1 = t1
  t2 = t2
  Names = {t1, t2, no_tenant}
  NoTenant = no_tenant
  Specs = {"pii"}
  Requests = {r1, r2}
  Nobody = nobody
  Credentials <- MCCredentials
  Files <- MCFiles
SPECIFICATION Spec
INVARIANTS
  LinesCarryOwnRequest
\* A gateway whose requests have ended takes no step.
CHECK_DEADLOCK FALSE
