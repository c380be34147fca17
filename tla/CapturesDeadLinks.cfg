SPECIFICATION FairSpec
CONSTANTS
  Pages = {1, 2}
  site = site
  elsewhere = elsewhere
  Away = {}
  Hosts = {site, elsewhere}
  HostOf <- MCHostOf
  FinalHost <- MCFinalHost
  Rules = {{}, {2}}
  Dead = {1}
  PageRetry <- MCPageRetry
  Probe <- MCProbe
  Threshold = 1
  Batch = 1
  Slots = {s1, s2}
  Ttl = 1
  FailureTtl = 1
  Unread = Unread
  MaxRun = 1
  MaxMoves = 1
PROPERTY CapturedInTheEnd
