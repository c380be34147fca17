SPECIFICATION CadenceSpec
CONSTANTS
  MinInterval = 300
  DefaultInterval = 900
  MaxInterval = 21600
  MaxBackoff = 86400
  MaxFailures = 10
  HonourTtl = TRUE
  Dated = Dated
  Bodies = {}
  NoTag = NoTag
  Unvisited = Unvisited
  Ttls <- MCTtls
  Overlap = 2
  Headers <- MCHeaders
INVARIANTS CadenceTypeOK WaitInBounds GiveUpTakesADay
CHECK_DEADLOCK FALSE
