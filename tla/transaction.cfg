SPECIFICATION FairSpec
CONSTANTS
  Handles = {h1, h2}
  Ends = {e1, e2}
  None = None
  ByHand = ByHand
  Raw = TRUE
INVARIANTS EndedOnce EndsOnlyItsOwn CommittedByItsWord
PROPERTY ClaimResolves
CHECK_DEADLOCK FALSE
