CONSTANTS
  Payloads = {"d1", "d2"}
  Masked <- TwoMasks
  MaxFree = 2
  Streams <- ManyStreams
SPECIFICATION Spec
INVARIANTS
  ClientGetsEvents
\* A stream that has ended takes no step.
CHECK_DEADLOCK FALSE
