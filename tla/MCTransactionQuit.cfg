SPECIFICATION Spec
CONSTANTS
  MaxEffects = 2
  MaxNesting = 2
  MaxSignals = 2
PROPERTY SecondSignalExits
CHECK_DEADLOCK FALSE
