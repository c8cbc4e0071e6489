SPECIFICATION Spec
CONSTANTS
  Prepareds = {p1, p2}
  Runs = {r1, r2}
  Closes = {c1, c2}
  None = None
SYMMETRY Symmetry
INVARIANTS OpenIsPinned ClosedGivesBack
CHECK_DEADLOCK FALSE
