CONSTANTS
  MaxFailures = 1
  Cooldown = 1
  u1 = u1
  u2 = u2
  Upstreams = {u1, u2}
  Nobody = nobody
  OwnKey = own_key
  SentIn <- Both
  r1 = r1
  s1 = s1
  Requests = {r1, s1}
  Streams = {s1}
  MaxTime = 1
  MaxListed = 1
  Route <- OneEach
  KeyHeader <- TwoHeaders
SPECIFICATION Spec
INVARIANTS
  ServedThroughStop
\* A stopped gateway, or one with nothing left to do, takes no step.
CHECK_DEADLOCK FALSE
