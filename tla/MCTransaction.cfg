SPECIFICATION Spec
CONSTANTS
  MaxEffects = 4
  MaxNesting = 3
  MaxSignals = 2
INVARIANTS FinalStays SignalCutsOne
PROPERTIES FailureUndoesAll NewestFirst
CHECK_DEADLOCK FALSE
