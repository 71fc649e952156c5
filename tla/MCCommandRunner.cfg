SPECIFICATION Spec
CONSTANTS
  Expected = 2
  Cap = 1
  Limit = 1
  MaxOut = 2
  CanEscape = FALSE
  None = None
INVARIANTS
  SuccessIsComplete
  TransferWhole
  NothingLeft
PROPERTIES
  PipesFlow
  Ends
