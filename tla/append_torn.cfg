SPECIFICATION Spec
CONSTANTS
  Width = 2
  MaxRows = 3
  Flushes = {f1}
  Loop = Loop
  NoOne = NoOne
  Reentrant = FALSE
  Throws = TRUE
INVARIANT RowsAreWhole
CHECK_DEADLOCK FALSE
