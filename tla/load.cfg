SPECIFICATION SpecCrossing
CONSTANTS
  HourCount = 2
  Sixty = 2
  Thousand = 2
  Word = 200
  Short = 8
  Reach = 800000
  MonthReach = 150
  Exact = 64
  Spacings = {1, 2, 4}
  Deep = 2
  RowWord = 4
  Calls = {l1, l2}
  l1 = l1
  Options <- MCOptions
  Connects <- MCConnects
  Parameters <- MCParameters
  Results <- MCResults
INVARIANT LoadedAsWritten
INVARIANT EdgesNameRows
INVARIANT RefusedMakesNothing
INVARIANT KeptAsMeant
INVARIANT ComesBackItself
INVARIANT ColumnsReadBack
CONSTRAINT Beside
CHECK_DEADLOCK FALSE
