SPECIFICATION FairSpec
CONSTANTS
  NULL = NULL
  Oldman = oldman
  Pool = pool
  Accounts = {oldman, pool, ann, bob}
  Clients = {ann}
  Events = {e1, e2}
  Queries = {q1}
  Claims = {c1}
  Adjudicators = {d1, d2}
  Modes <- RoyaltyOnly
  StartingGrant = 3
  PublishReward = 5
  FeePercent = 10
  QueryPrice = 4
  PoolFee = 1
  Horizon = 0
  MaxClock = 1
  MaxDisputes = 1
  MaxCrashes = 1
CHECK_DEADLOCK FALSE
INVARIANTS CreditsConserved EarningsCapped DisputedNotOpen RefundsMatchClaims
PROPERTIES RoyaltyInTime DecisionsAreFinal QueriesEnd MarketSettlesDeals
