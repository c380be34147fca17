SPECIFICATION Spec
CONSTANTS
  Ids = {1, 2, 3}
  Filed = {}
  Relevance <- MCRelevance
  SlowestPoll = 0
  SlowestArrival = 1
  Window = 0
  Limit = 1
  MaxDepth = 1
  MaxNow = 1
  MaxChanges = 0
  ShownLists = {"search"}
  MaxViews = 1
  MaxRefreshes = 0
INVARIANT NoRowTwice
CHECK_DEADLOCK FALSE
