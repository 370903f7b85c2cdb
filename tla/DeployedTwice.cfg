SPECIFICATION Spec
CONSTANTS
  q1 = q1
  q2 = q2
  Requests <- One
  Operations = {"deploy", "retry", "replay"}
  MaxPolls = 0
  MaxRun = 2
  MaxDeployments = 4
  MaxRecords = 5
  MaxFaults = 0
INVARIANT DeployedOnceEver
CHECK_DEADLOCK FALSE
