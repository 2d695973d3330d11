SPECIFICATION TSpec
CONSTANTS
  e1 = e1  e2 = e2  e3 = e3  ann = ann  bob = bob  s1 = s1  s2 = s2  s3 = s3
  NULL = NULL
  Queries = {q1}
  Events = {e1, e2, e3}
  Agents = {ann, bob}
  Author <- AuthorOf
  ShortIds = {s1, s2, s3}
  Short <- ShortOf
  HasJudge = TRUE
  Caps = {3}
  MaxEvents = 2
  MaxRetries = 2
  Messages <- AnyMessage
  MaxCancels = 2
CHECK_DEADLOCK FALSE
INVARIANTS StrictAnswersJudged RetriesCounted TerminalEventStands
PROPERTIES PromiseKept RequestsEnd
