CONSTANTS
  Lookahead = 4
  ScanStep = 3
  MaxDelta = 3
  MaxChunk = 2
  MaxLength = 10
  MaxEvents = 6
  Judges = {"judge"}
  Tenant = "t1"
  FailMode = "fail-closed"
  Rules <- MCRules
  Texts <- MCTexts
SPECIFICATION Spec
INVARIANTS
  TypeOK
  QueueCoversHeldText
  NothingUnscanned
  HeldTextBounded
  DetectedBeforeFlush
PROPERTIES
  FreshRedactionExact
  ExactWhenHeld
\* A finished, blocked or failed stream has no further step.
CHECK_DEADLOCK FALSE
