SPECIFICATION FairSpec
CONSTANTS
  MAX_RETRIES = 3
  MAX_INTERNAL_RETRIES = 3
  MaxClicks = 1
  MaxFaults = 1
PROPERTY VisitsEnd VisitAdvances
INVARIANT TypeOK CheckedCode CallsBounded
CHECK_DEADLOCK FALSE
