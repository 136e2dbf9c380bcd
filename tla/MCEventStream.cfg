CONSTANTS
  Payloads = {"d1", "d2"}
  Masked <- TwoMasks
  MaxFree = 7
  Streams <- ManyStreams
SPECIFICATION Spec
INVARIANTS
  ChunkingIrrelevant
  CutsAsClient
  FieldsConserved
\* A stream that has ended takes no step.
CHECK_DEADLOCK FALSE
