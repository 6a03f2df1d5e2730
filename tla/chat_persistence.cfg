SPECIFICATION Spec
CONSTANTS
  u1 = u1
  Users = {u1}
  Incoming <- SeekersMessages
  ContentOf <- TheContents
  StoredRows <- Seekers
  PoolSize = 2
  MaxMessages = 2
  MaxFailures = 0
INVARIANTS
  StatePersists
CHECK_DEADLOCK FALSE
