\* stm_on code that reads from a third node
CONSTANTS
  READ_VERSIONING = FALSE
  WRITE_BUFFERING = FALSE
  LATE_ACQUIRE = FALSE
  NumProcs = 3
  Client = {0}
  Word = {0, 1}
  ShareSize = 1
  NodeOf <- NodesUpper
  Extent <- Singles
  Val = {0, 1}
  InitVal = 0
  NoVal = NoVal
  WordMod = 16
  OnNode = {1}
  NestedRemote = TRUE
  MaxDepth = 1
  MaxOps = 2
SPECIFICATION Spec
INVARIANT NothingLeftBehind
