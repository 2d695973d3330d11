SPECIFICATION Spec
CONSTANTS
  NULL = NULL
  Agents = {ann}
  Canaries = {k1, k2}
  Grain = 8
  MaxClock = 1
  MaxEvidence = 8
  MaxCrashes = 1
CHECK_DEADLOCK FALSE
INVARIANT MembersPassedAudit
