SPECIFICATION Spec
CONSTANTS
  q1 = q1
  q2 = q2
  Requests <- Two
  Operations = {"deploy", "retry", "replay"}
  MaxPolls = 1
  MaxRun = 2
  MaxDeployments = 2
  MaxRecords = 4
  MaxFaults = 0
INVARIANT QueuedOnce
CHECK_DEADLOCK FALSE
