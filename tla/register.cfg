SPECIFICATION Spec
CONSTANTS
  Byte = 2
  Reach = 4
  Base = 3
  Cuts <- MCCuts
  Registers = {r1}
  Unregisters = {u1}
  Names = {n, t}
  Tables = {t}
  Vectors <- MCVectors
INVARIANTS AnswersTheRows PointsOnlyAtHeld HolesAreNamed
CHECK_DEADLOCK FALSE
