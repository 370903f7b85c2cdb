SPECIFICATION FairSpec
CONSTANTS
  Run = {1, 2}
  Acts = {"merge", "close", "delete"}
  MaxHands = 1
  AuthModes = {"none", "token", "app", "blind"}
  Racing = FALSE
  MaxFaults = 2
INVARIANT TypeOK RepositoryKept
PROPERTIES DeliversOnce InvocationsAdvance InvocationsEnd
CHECK_DEADLOCK FALSE
