SPECIFICATION FairSpec
CONSTANTS
  NoRow = NoRow
  Calls = {c1, c2, c3}
  Addresses = {a1}
  Keys = {k1}
  Values = {v1, v2}
  MaxFailures = 1
INVARIANTS
  TypeOK
  OnlyRacedStoresHang
  OneStoreWins
PROPERTIES
  ImplementsAtomicStore
  StoresOfRowsSettle
CHECK_DEADLOCK FALSE
