SPECIFICATION Spec
CONSTANTS
  Queue = 2
  MaxBatches = 4
  Readers = {r1, r2}
  Cancellers = {c1}
  Worker = worker
  Collected = TRUE
  Panics = TRUE
SYMMETRY Symmetry
INVARIANTS InOrder EndMeansAll CancelMeansFree
PROPERTY ImplementsBatchStream
CHECK_DEADLOCK FALSE
