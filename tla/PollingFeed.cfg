SPECIFICATION FairSpec
CONSTANTS
  MinInterval = 1
  DefaultInterval = 1
  MaxInterval = 1
  MaxBackoff = 1
  MaxFailures = 1
  HonourTtl = TRUE
  Dated = Dated
  Bodies = {b1, b2}
  NoTag = NoTag
  Unvisited = Unvisited
  Feeds = {f1}
  shared = shared
  other = other
  apart = other
  Hosts = {shared, other}
  HostOf <- MCHostOf
  Slots = {s1, s2}
  Idle = Idle
  NoBody = NoBody
  Tagging = {TRUE, FALSE}
  Batch = 1
  Headers = {}
  MaxAge = 1
  MaxLate = 1
  MaxSweeps = 1
  MaxMoves = 2
  MaxFaults = 4
  MaxKills = 0
INVARIANTS GoneIsFinal RunBounded ValidatorBacked
PROPERTY CatchesUp
