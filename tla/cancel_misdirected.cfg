SPECIFICATION MCSpec
CONSTANTS
  Statements = {a, b}
  Watched = {a}
  NoOne = NoOne
INVARIANT OnlyTheAskedAreInterrupted
