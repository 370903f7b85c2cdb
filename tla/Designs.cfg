SPECIFICATION Spec
CONSTANTS
  q1 = q1
  Requests <- Q
  Operations = {"generate", "feedback", "reject", "retry", "replay"}
  Naming = TRUE
  MaxRun = 2
  MaxRows = 4
  MaxTx = 6
  MaxDecisions = 2
  MaxFaults = 1
INVARIANT TypeOK VersionsDense SelectionHonoured
PROPERTY DesignsKept
CHECK_DEADLOCK FALSE
