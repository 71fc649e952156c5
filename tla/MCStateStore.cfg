SPECIFICATION Spec
CONSTANTS
  r1 = r1
  r2 = r2
  r3 = r3
  Runs = {r1, r2, r3}
  Dests <- MCDests
  Default = "default"
  Edits <- MCEdits
  Stored <- MCStored
  Detached = FALSE
  MaxEdits = 2
  None = None
SYMMETRY Sym
INVARIANTS OneWriter WholeAfterPowerCut PurgedStaysPurged ReadsWhatWasOnDisk
PROPERTIES ForeignFileKept Isolated
CHECK_DEADLOCK FALSE
