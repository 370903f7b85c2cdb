SPECIFICATION Spec
CONSTANTS
  q1 = q1
  Requests <- Q
  Operations = {"generate"}
  Naming = TRUE
  MaxRun = 1
  MaxRows = 4
  MaxTx = 6
  MaxDecisions = 2
  MaxFaults = 1
INVARIANT CodeFromApproved
CHECK_DEADLOCK FALSE
