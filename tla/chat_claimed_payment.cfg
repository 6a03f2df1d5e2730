SPECIFICATION Spec
CONSTANTS
  u1 = u1
  Users = {u1}
  Incoming <- FirstMessages
  ContentOf <- TheContents
  StoredRows <- Strangers
  PoolSize = 2
  MaxMessages = 2
  MaxFailures = 1
INVARIANTS
  NoUntrustedPayment
CHECK_DEADLOCK FALSE
