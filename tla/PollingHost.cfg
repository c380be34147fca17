SPECIFICATION FairSpec
CONSTANTS
  MinInterval = 1
  DefaultInterval = 1
  MaxInterval = 1
  MaxBackoff = 1
  MaxFailures = 1
  HonourTtl = TRUE
  Dated = Dated
  Bodies = {b1}
  NoTag = NoTag
  Unvisited = Unvisited
  Feeds = {f1, f2}
  shared = shared
  other = other
  apart = f2
  Hosts = {shared, other}
  HostOf <- MCHostOf
  Slots = {s1, s2}
  Idle = Idle
  NoBody = NoBody
  Tagging = {FALSE}
  Batch = 1
  Headers <- MCHeaders
  MaxAge = 1
  MaxLate = 2
  MaxSweeps = 1
  MaxMoves = 0
  MaxFaults = 1
  MaxKills = 1
INVARIANT TypeOK
PROPERTIES ImplementsQueue DueIsVisited
