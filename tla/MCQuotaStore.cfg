CONSTANTS
  Requests = {r1, r2, r3}
  Replicas = {p1, p2}
  Redis = redis
  Rpm = 1
  Window = 2
  Grace = 2
  Horizon = 2
  MaxTime = 6
SYMMETRY Symmetry
SPECIFICATION Spec
INVARIANTS
  TypeOK
  LimitPerWindow
  RefusedOnlyAtLimit
  KeysExpire
\* At the end of the clock nothing happens.
CHECK_DEADLOCK FALSE
