SPECIFICATION Spec
CONSTANTS
  a1 = a1
  a2 = a2
  ZeroAddress = ZeroAddress
  Accounts = {a1, a2}
  Word = 1024
  Quotes <- SmallQuotes
  Amounts <- SmallAmounts
  Endowments <- SmallEndowments
  MaxUsers = 2
  MaxInvestments = 2
  MaxListings = 1
SYMMETRY Swaps
INVARIANTS
  TypeOK
  LatestPolicyWins
  UnregisteredUntouched
  MinimumNotMetMeansCancelled
  PremiumFollowsPool
  LedgerWithinPool
PROPERTIES
  TermsFixed
  SettledStaysSettled
  LonePolicyPaysAsPromised
  ImplementsLifecycle
CHECK_DEADLOCK FALSE
