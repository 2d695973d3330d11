SPECIFICATION Spec
CONSTANTS
  NULL = NULL
  Names <- OneName
  Mentions <- Alone
  Descriptors = {wise, kind}
  wise = wise
  kind = kind
  Answers <- WordsByScope
  ClientDates = {}
  Threshold = 2
  AgeThreshold = 6
  ContextEvents = 3
  MaxPublishes = 4
  MaxPauses = 0
  MaxCrashes = 0
CHECK_DEADLOCK FALSE
INVARIANT CountedOnce
