SPECIFICATION FairSpec
CONSTANTS
  Pages = {1, 2}
  site = site
  elsewhere = elsewhere
  Away = {1}
  Hosts = {site, elsewhere}
  HostOf <- MCHostOf
  FinalHost <- MCFinalHost
  Rules = {{}, {2}}
  Dead = {}
  PageRetry <- MCPageRetry
  Probe <- MCProbe
  Threshold = 1
  Batch = 1
  Slots = {s1, s2}
  Ttl = 1
  FailureTtl = 1
  Unread = Unread
  MaxRun = 1
  MaxMoves = 1
INVARIANTS TypeOK TriesBounded RefusedByTheRulesHeld
PROPERTY OneClockPerHost CapturedInTheEnd
