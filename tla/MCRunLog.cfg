SPECIFICATION Spec
CONSTANTS
  r1 = r1
  r2 = r2
  Runs = {r1, r2}
  Calls <- MCCalls
  KeptSteps = 2
  MaxCalls = 1
  MaxFaults = 2
  None = None
SYMMETRY Sym
INVARIANTS WriteAhead IncompleteIsListed AuditAgrees
CHECK_DEADLOCK FALSE
