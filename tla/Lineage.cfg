SPECIFICATION Spec
CONSTANTS
  q1 = q1
  Requests <- Q
  Operations = {"feedback"}
  Naming = TRUE
  MaxRun = 1
  MaxRows = 4
  MaxTx = 6
  MaxDecisions = 2
  MaxFaults = 1
INVARIANT LineageTrue
CHECK_DEADLOCK FALSE
