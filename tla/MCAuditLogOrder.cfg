CONSTANTS
  w1 = w1
  w2 = w2
  Workers = {w1, w2}
  Caller = loop
  NoOne = no_one
  LineBytes <- Lines
  MaxSize = 1
  MaxFiles = 2
  MaxRecords = 2
  MaxPending = 2
  MaxStarts = 0
SPECIFICATION Spec
INVARIANTS
  ChainVerifies
\* A process with nothing left to log takes no step.
CHECK_DEADLOCK FALSE
