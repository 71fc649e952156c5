SPECIFICATION Spec
CONSTANTS
  NumHosts = 2
  Procs = {p1, p2}
  MaxRuns = 1
  MaxFaults = 2
  Operator = operator
SYMMETRY RunSymmetry
INVARIANTS MutualExclusion NoOrphan OneGetsThrough
CHECK_DEADLOCK FALSE
