CONSTANTS
  w1 = w1
  w2 = w2
  Workers = {w1, w2}
  Caller = loop
  NoOne = no_one
  LineBytes <- Lines
  MaxSize = 2
  MaxFiles = 2
  MaxRecords = 6
  MaxPending = 2
  MaxStarts = 1
SPECIFICATION FairSpec
INVARIANTS
  TypeOK
  StoredIsSuffix
  WrittenOnce
  FileSizeBounded
  AwaitedChainVerifies
  EventsAccountedFor
PROPERTIES
  EventuallyEmitted
\* A process with nothing left to log takes no step.
CHECK_DEADLOCK FALSE
