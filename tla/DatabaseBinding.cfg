SPECIFICATION SSpec
CONSTANTS
  NULL = NULL
  Releases <- Current
  Rows = {row1}
  MaxCrashes = 0
  MaxFailures = 1
  Requests = {r1, r2, r3}
CHECK_DEADLOCK FALSE
INVARIANT BindingKept
