SPECIFICATION LogSpec
CONSTANTS
  logId = logId
  null = null
  Origin = Origin
  w1 = w1
  w2 = w2
  Sweep <- OneSweep
  Happens = {"sent", "delivered"}
  MAX_IMMEDIATE_ATTEMPTS = 3
  MAX_TOTAL_ATTEMPTS = 9
  MaxFailures = 0
CHECK_DEADLOCK FALSE
INVARIANTS
  DeliveryRecorded
