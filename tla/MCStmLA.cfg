\* LATE_ACQUIRE build, one word per block, under fairness.
CONSTANTS
  READ_VERSIONING = FALSE
  WRITE_BUFFERING = TRUE
  LATE_ACQUIRE = TRUE
  NumProcs = 3
  Client = {0, 1}
  Word = {0, 1}
  ShareSize = 1
  NodeOf <- NodesUpper
  Extent <- Singles
  Val = {0, 1}
  InitVal = 0
  NoVal = NoVal
  WordMod = 16
  OnNode = {}
  NestedRemote = FALSE
  MaxDepth = 1
  MaxOps = 2
SPECIFICATION FairSpec
INVARIANTS LockInv ReadYourWrites NothingLeftBehind
PROPERTIES AtomicSpec CallsReturn
