SPECIFICATION MCSpec
CONSTANTS
  Statements = {q1}
  Streams = {s1, s2}
  Closes = {c1}
  Disposals = {d1}
  NoOne = NoOne
  Panics = {"statement", "stream"}
INVARIANTS TypeOK OnePlace ClosedStaysClosed PanicIsTheLast TxnWord
PROPERTIES NeverFromUnder ImplementsSlot EveryCallAnswered CloseReleases
