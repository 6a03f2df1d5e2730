SPECIFICATION FairSpec
CONSTANTS
  Messages <- MCMessages
  MaxMessages = 2
  Decimals <- MCDecimals
  AgeLimit = 1
  Worth <- MCWorth
  MaxTime = 4
  MaxPings = 2
  MaxFailures = 1
INVARIANTS
  TypeOK
  SentIsAsked
  PaysWithinLimit
  ToldOnlyIfPaid
  ServicesStartOnce
PROPERTIES
  EveryRequestIsTold
  PingStartsServices
CHECK_DEADLOCK FALSE
