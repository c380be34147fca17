SPECIFICATION AloneSpec
CONSTANTS
  Feeds = {f1}
  Items = {i1, i2}
  Texts = {old, new}
  Bodies = {plain, edited, repeated}
  i1 = i1
  i2 = i2
  old = old
  new = new
  plain = plain
  edited = edited
  repeated = repeated
  Entries <- MCEntries
  Writers = {w1, w2}
  Unsaid = Unsaid
  NoBody = NoBody
  NoVersion = NoVersion
  MaxClock = 7
INVARIANTS TypeOK Chained EditsChange Applied
PROPERTIES AloneImplementsArchive
CHECK_DEADLOCK FALSE
