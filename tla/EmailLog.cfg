SPECIFICATION LogSpec
CONSTANTS
  logId = logId
  null = null
  Origin = Origin
  w1 = w1
  w2 = w2
  Sweep <- TwoSweeps
  Happens = {"sent", "delivered", "failed"}
  MAX_IMMEDIATE_ATTEMPTS = 2
  MAX_TOTAL_ATTEMPTS = 4
  MaxFailures = 2
CHECK_DEADLOCK FALSE
SYMMETRY Slots
INVARIANTS
  LogTypeOK
  FailedOverSentNeedsOverlap
  AttemptsCapped
PROPERTIES
  NoLateCode
