SPECIFICATION Spec
CONSTANTS
  q1 = q1
  q2 = q2
  Requests <- One
  Operations = {"deploy", "retry", "replay"}
  MaxPolls = 1
  MaxRun = 3
  MaxDeployments = 2
  MaxRecords = 3
  MaxFaults = 1
INVARIANT TypeOK LiveTrue DeployedShown DeployedOnce
PROPERTY RecordsFinal InvocationsAdvance InvocationsEnd
CHECK_DEADLOCK FALSE
