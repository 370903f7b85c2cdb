SPECIFICATION Spec
CONSTANTS
  w = w
  t1 = t1
  t2 = t2
  q1 = q1
  q2 = q2
  MaxRun = 1
  MaxEvents = 3
  MaxQueued = 1
  MaxJobs = 1
  Tasks = {t1}
  Worker = w
  Requests = {q1}
  MaxRetries = 1
  Unreliable = {"GeneratePRD"}
  Operations = {"approval"}
  MaxFaults = 0
  WorkerUp = TRUE
INVARIANTS TypeOK DesignGate DeployGate
CHECK_DEADLOCK FALSE
