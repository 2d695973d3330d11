SPECIFICATION Spec
CONSTANTS
  NULL = NULL
  Names <- PlainNames
  Mentions <- Observing
  Descriptors = {wise, kind}
  wise = wise
  kind = kind
  Answers <- WordsByScope
  ClientDates = {1, 99}
  Threshold = 2
  AgeThreshold = 6
  ContextEvents = 3
  MaxPublishes = 2
  MaxPauses = 1
  MaxCrashes = 1
CHECK_DEADLOCK FALSE
INVARIANTS OneReflectionAtATime StoredInOrder TraitsExplained
PROPERTY TasksEnd
