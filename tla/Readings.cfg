SPECIFICATION FairSpec
CONSTANTS
  p1 = p1
  p2 = p2
  e1 = e1
  e2 = e2
  Parsers = {p1, p2}
  Extractors = {e1, e2}
  Fullest = 2
  Documents <- MCDocuments
  Reads <- MCReads
  MaxVersions = 2
  MaxPages = 1
  MaxRestarts = 1
INVARIANTS TypeOK TextNeverHidden
PROPERTIES NeverBlankAgain HeadIsReadInTheEnd
CHECK_DEADLOCK FALSE
