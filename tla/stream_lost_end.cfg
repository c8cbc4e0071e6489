SPECIFICATION Spec
CONSTANTS
  Queue = 2
  MaxBatches = 3
  Readers = {r1}
  Cancellers = {c1}
  Worker = worker
  Collected = FALSE
  Panics = FALSE
PROPERTY EndIsExplained
CHECK_DEADLOCK FALSE
