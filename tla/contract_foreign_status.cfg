SPECIFICATION Spec
CONSTANTS
  a1 = a1
  a2 = a2
  a3 = a3
  ZeroAddress = ZeroAddress
  Accounts = {a1, a2, a3}
  Word = 1048576
  Quotes <- LargeQuotes
  Amounts <- LargeAmounts
  Endowments <- LargeEndowments
  MaxUsers = 2
  MaxInvestments = 2
  MaxListings = 2
PROPERTIES
  CancelledRefundsSeeker
CHECK_DEADLOCK FALSE
