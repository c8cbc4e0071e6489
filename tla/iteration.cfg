SPECIFICATION FairIt
CONSTANTS
  Queue = 1
  MaxBatches = 3
  Readers = {reader}
  Cancellers = {finally, p1, p2}
  Reader = reader
  Finally = finally
  Threads = 1
  Worker = worker
  Collected = FALSE
  Panics = FALSE
INVARIANT LeavingFrees
INVARIANT SummaryStands
PROPERTY EveryCallSettles
PROPERTY StreamLetsGo
CHECK_DEADLOCK FALSE
