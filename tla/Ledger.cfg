SPECIFICATION Spec
CONSTANTS
  Accounts = {oldman, ann, bob}
  NULL = NULL
  StartingGrant = 2
  Reasons = {"royalty"}
  Amounts = {1, 3}
  MaxTransfers = 7
CHECK_DEADLOCK FALSE
INVARIANTS BalancesExplained OneGrantPerAccount
