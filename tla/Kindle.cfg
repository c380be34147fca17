SPECIFICATION Spec
CONSTANTS
  Items = {i1, i2}
  Hands = {h1}
  Worker = Worker
  Window = 2
  Period = 2
  Modes = {"off", "built", "posted"}
  Unseen = Unseen
  MaxIssues = 2
  MaxMoves = 1
  MaxFaults = 2
INVARIANTS TypeOK TwiceOnlyIfOverlapping SentIsMailed 
SYMMETRY Interchangeable
CHECK_DEADLOCK FALSE
