SPECIFICATION FairSpec
CONSTANTS
  u1 = u1
  Users = {u1}
  Incoming <- SeekersMessages
  ContentOf <- TheContents
  StoredRows <- Seekers
  PoolSize = 2
  MaxMessages = 3
  MaxFailures = 1
INVARIANTS
  StoredQuoteHasLocation
PROPERTIES
  EveryMessageEnds
CHECK_DEADLOCK FALSE
