SPECIFICATION Spec
CONSTANTS
  u1 = u1
  Users = {u1}
  Incoming <- FirstMessages
  ContentOf <- TheContents
  StoredRows <- Strangers
  PoolSize = 2
  MaxMessages = 3
  MaxFailures = 1
INVARIANTS
  TypeOK
  ClaimedPaymentsAreTold
  InitFirst
  WakeUpsIgnored
CHECK_DEADLOCK FALSE
