CONSTANTS
  Lookahead = 4
  ScanStep = 3
  MaxDelta = 3
  MaxChunk = 2
  MaxLength = 10
  MaxEvents = 6
  Judges = {"judge"}
  Tenant = "t1"
  FailMode = "fail-closed"
  Rules <- MCRules
  Texts <- BlockTexts
SPECIFICATION Spec
INVARIANT BlockBeforeFlush
CHECK_DEADLOCK FALSE
