SPECIFICATION Spec
CONSTANTS
  q1 = q1
  q2 = q2
  p1 = p1
  p2 = p2
  k1 = k1
  none = none
  Requests <- RequestsMC
  Project <- Projects2
  Key <- KeysMC
  NoKey <- none
  Operations = {"project", "run", "replay", "retry", "restart", "update", "delete"}
  MaxRuns = 3
  MaxFaults = 1
SYMMETRY Symmetry
INVARIANT TypeOK SameAnswer StartedOnce
PROPERTY DeletionFinal DeletionSettles
CHECK_DEADLOCK FALSE
