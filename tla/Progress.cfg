SPECIFICATION FairSpec
CONSTANTS
  w = w
  t1 = t1
  t2 = t2
  q1 = q1
  q2 = q2
  MaxRun = 1
  MaxEvents = 1
  MaxQueued = 1
  MaxJobs = 1
  Tasks = {t1}
  Worker = w
  Requests = {q1}
  MaxRetries = 1
  Unreliable = {"GeneratePRD"}
  Operations = {"approval"}
  MaxFaults = 1
  WorkerUp = TRUE
PROPERTIES ActionableProgress
CHECK_DEADLOCK FALSE
