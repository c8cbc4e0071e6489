SPECIFICATION FairSpec
CONSTANTS
  Width = 2
  MaxRows = 3
  Flushes = {f1, f2}
  Loop = Loop
  NoOne = NoOne
  Reentrant = TRUE
  Throws = TRUE
INVARIANTS NoRowLostOrTwice GettersAgree ClosedHasWritten NeverWaits
PROPERTY FlushesSettle
CHECK_DEADLOCK FALSE
