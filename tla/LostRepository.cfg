SPECIFICATION RetriedSpec
CONSTANTS
  Run = {1}
  Acts = {}
  MaxHands = 0
  AuthModes = {"token"}
  Racing = FALSE
  MaxFaults = 1
PROPERTY RepositoryFound
CHECK_DEADLOCK FALSE
