CONSTANTS
  NumFields = 2
  Width = 4
  BlockDetectors = {"inj"}
  CreditCard = "pii"
  Tenant = "t1"
  FailMode = "fail-closed"
  Bodies <- MCBodies
  Policies <- MCPolicies
SPECIFICATION Spec
INVARIANTS
  TypeOK
  BlockedNeverForwarded
  ClaimedNeverForwarded
  RedactionExact
  UnmatchedAloneBlocks
  FacadeExact
\* A body that was forwarded, blocked or given up takes no further step.
CHECK_DEADLOCK FALSE
