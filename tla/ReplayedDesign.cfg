SPECIFICATION Spec
CONSTANTS
  q1 = q1
  Requests <- Q
  Operations = {"reject", "replay"}
  Naming = TRUE
  MaxRun = 2
  MaxRows = 4
  MaxTx = 6
  MaxDecisions = 2
  MaxFaults = 1
INVARIANT CodeFromApproved
CHECK_DEADLOCK FALSE
