SPECIFICATION FairSpec
CONSTANTS
  u1 = u1
  u2 = u2
  big = big
  bomb = bomb
  Offers <- MCOffers
  Urls = {u1, u2}
  Pictures = {big, bomb}
  Bombs = {bomb}
  Size <- MCSize
  Poor = Poor
  Barred = Barred
  Leads = {1, 2}
  Bodies = {3}
  UrlOf <- MCUrlOf
  Batch = 1
  EncodeBatch = 1
  Encoders = {e1, e2}
  Unread = Unread
  Places = {w1, w2}
  Idle = Idle
  MaxChanges = 1
  MaxRestarts = 2
INVARIANTS TypeOK NothingHeldIsAsked OneGenerationPerEncoder
PROPERTIES PicturesArriveInTheEnd
CHECK_DEADLOCK FALSE
