SPECIFICATION DeployedSpec
CONSTANTS
  w = w
  t1 = t1
  t2 = t2
  q1 = q1
  q2 = q2
  MaxRun = 4
  MaxEvents = 3
  MaxQueued = 1
  MaxJobs = 1
  Tasks = {t1}
  Worker = w
  Requests = {q1}
  MaxRetries = 1
  Unreliable = {}
  Operations = {"replay"}
  MaxFaults = 0
  WorkerUp = TRUE
INVARIANTS SecurityGateHolds
CONSTRAINT FreshCopies
CHECK_DEADLOCK FALSE
