SPECIFICATION FairSpec
CONSTANTS
  MaxTime = 3
  MaxUpdates = 2
  MaxFailures = 2
INVARIANTS
  TypeOK
  OneConnection
PROPERTIES
  ListCatchesUp
  EveryRequestSettles
  StaysSubscribed
CHECK_DEADLOCK FALSE
