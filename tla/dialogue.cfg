SPECIFICATION FairSpec
CHECK_DEADLOCK FALSE
INVARIANTS
  TypeOK
  QuoteHasLocation
PROPERTIES
  CooperationGetsQuote
