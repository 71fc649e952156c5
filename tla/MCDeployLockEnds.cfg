SPECIFICATION FairSpec
CONSTANTS
  NumHosts = 1
  Procs = {p1, p2}
  MaxRuns = 1
  MaxFaults = 1
  Operator = operator
PROPERTY LockingEnds
CHECK_DEADLOCK FALSE
