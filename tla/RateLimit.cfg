SPECIFICATION Spec
CONSTANTS
  MAX_RETRIES = 3
  MAX_INTERNAL_RETRIES = 3
  MaxClicks = 1
  MaxFaults = 0
INVARIANT RateLimitHeard
CHECK_DEADLOCK FALSE
