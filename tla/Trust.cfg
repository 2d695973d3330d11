SPECIFICATION Spec
CONSTANTS
  NULL = NULL
  Agents = {ann}
  Canaries = {k1, k2}
  Grain = 8
  MaxClock = 1
  MaxEvidence = 8
  MaxCrashes = 1
SYMMETRY Alike
CHECK_DEADLOCK FALSE
INVARIANTS ViolationsExclude HonestNeverSanctioned ScoresExplained CanarySignalKept
PROPERTY ExclusionStands
