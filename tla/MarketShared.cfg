SPECIFICATION Spec
CONSTANTS
  NULL = NULL
  Oldman = oldman
  Pool = pool
  Accounts = {oldman, pool, ann, bob}
  Clients = {ann, bob}
  Events = {e1}
  Queries = {q1, q2}
  Claims = {}
  Adjudicators = {}
  Modes <- AnyMode
  StartingGrant = 3
  PublishReward = 3
  FeePercent = 20
  QueryPrice = 2
  PoolFee = 1
  Horizon = 0
  MaxClock = 1
  MaxDisputes = 1
  MaxCrashes = 1
SYMMETRY Alike
CHECK_DEADLOCK FALSE
INVARIANTS EventsPaidOnce EscrowMatchesRoyalty InvoiceMatchesPayment EvidenceOfSettledPurchase
PROPERTY MarketSettlesDeals
