SPECIFICATION SlotSpec
CONSTANTS
  MIN_MS_BETWEEN_REQUESTS = 3
  MaxLate = 2
  Limit = 3
  Second = 7
  MaxCalls = 6
  MaxTime = 16
CHECK_DEADLOCK FALSE
INVARIANTS
  SlotInv
  StartsSpread
  RateKept
