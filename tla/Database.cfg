SPECIFICATION SSpec
CONSTANTS
  NULL = NULL
  Releases <- Shipped
  Rows = {row1, row2}
  MaxCrashes = 2
  MaxFailures = 2
  Requests = {r1, r2}
CHECK_DEADLOCK FALSE
INVARIANTS WholeMigrations PromisesKept
PROPERTIES LogKept UpgradesEnd WholeUnits
