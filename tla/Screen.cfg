SPECIFICATION Spec
CONSTANTS
  Ids = {1, 2, 3}
  Filed = {1, 2}
  Relevance <- MCRelevance
  SlowestPoll = 0
  SlowestArrival = 1
  Window = 0
  Limit = 1
  MaxDepth = 1
  MaxNow = 1
  MaxChanges = 1
  ShownLists = {"section", "archive", "search"}
  MaxViews = 2
  MaxRefreshes = 1
INVARIANTS TypeOK SteadyRowsShownOnce NothingSkipped SearchWhole
CHECK_DEADLOCK FALSE
