SPECIFICATION MCSpec
CONSTANTS
  Statements = {a, b, c}
  Watched = {a, b}
  NoOne = NoOne
INVARIANTS StopNotLost NoStaleStop
PROPERTY AskedStatementsLetGo
