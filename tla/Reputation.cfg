SPECIFICATION RSpec
CONSTANTS
  NULL = NULL
  Agents = {ann}
  Canaries = {k1}
  Grain = 2
  MaxClock = 1
  MaxEvidence = 4
  MaxCrashes = 1
  MaxCitations = 2
  MaxReports = 1
  MaxFeedback = 2
CHECK_DEADLOCK FALSE
INVARIANTS OneSnapshot ScoldsCite
