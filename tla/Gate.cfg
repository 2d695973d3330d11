SPECIFICATION Spec
CONSTANTS
  NULL = NULL
  Names = {"ann", "bob"}
  Seen = {"bob"}
  Dids = {"did1", "did2"}
  Payloads = {"market", "longer", "weather"}
  Hash <- Digest
  Tokens <- Words
  Signatures <- TwoHolders
  Dates = {1, 2}
  Window = 1
  Num = 1
  Den = 2
  MaxEvents = 3
CHECK_DEADLOCK FALSE
INVARIANTS SignedRowsBound CountsExplained NearDuplicatesApart
PROPERTIES BindingsStand
