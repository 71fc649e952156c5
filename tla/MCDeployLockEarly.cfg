SPECIFICATION Spec
CONSTANTS
  NumHosts = 2
  Procs = {p1, p2}
  MaxRuns = 1
  MaxFaults = 1
  Operator = operator
INVARIANT ReleasedWhenDeployEnds
CHECK_DEADLOCK FALSE
