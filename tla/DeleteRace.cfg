SPECIFICATION Spec
CONSTANTS
  q1 = q1
  q2 = q2
  p1 = p1
  p2 = p2
  k1 = k1
  none = none
  Requests <- RequestsMC
  Project <- OneProject
  Key <- KeysMC
  NoKey <- none
  Operations = {"project", "run", "delete"}
  MaxRuns = 2
  MaxFaults = 0
INVARIANT DeletedIdle
CHECK_DEADLOCK FALSE
