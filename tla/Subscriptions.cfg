SPECIFICATION FairSpec
CONSTANTS
  f1 = f1
  f2 = f2
  blog = blog
  bare = bare
  site = site
  s1 = s1
  s2 = s2
  Feeds = {f1, f2}
  Pages = {blog, bare}
  Mail = Mail
  Hosts = {site}
  HostOf <- MCHostOf
  Names <- MCNames
  NoFeed = NoFeed
  Outlines <- MCOutlines
  Readers = {r1, r2}
  Importer = Importer
  Sections = {s1, s2}
  Tiers = {Wire, Book}
  Wire = Wire
  NoRow = NoRow
  MaxRequests = 2
  MaxDeletes = 1
  MaxFaults = 2
INVARIANTS TypeOK FailsOnlyOnItsOwnFeed FiledWhole
PROPERTIES ImportedInTheEnd
CHECK_DEADLOCK FALSE
