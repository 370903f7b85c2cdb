SPECIFICATION Spec
CONSTANTS
  Run = {1}
  Acts = {}
  MaxHands = 0
  AuthModes = {"app"}
  Racing = FALSE
  MaxFaults = 0
PROPERTY MergesChecked
CHECK_DEADLOCK FALSE
