SPECIFICATION FairLogSpec
CONSTANTS
  logId = logId
  null = null
  Origin = Origin
  w1 = w1
  w2 = w2
  Sweep <- OneSweep
  Happens = {"sent", "delivered", "delivery_delayed", "bounced", "complained", "suppressed", "failed", "opened"}
  MAX_IMMEDIATE_ATTEMPTS = 2
  MAX_TOTAL_ATTEMPTS = 3
  MaxFailures = 1
CHECK_DEADLOCK FALSE
INVARIANTS
  ClaimsAreTrue
  AnsweredMeansFlagged
PROPERTIES
  Settles
