\* LATE_ACQUIRE with two words per block: are committed transactions serializable?
CONSTANTS
  READ_VERSIONING = FALSE
  WRITE_BUFFERING = TRUE
  LATE_ACQUIRE = TRUE
  NumProcs = 2
  Client = {0, 1}
  Word = {0, 1}
  ShareSize = 2
  NodeOf <- NodesAlternate
  Extent <- Singles
  Val = {0, 1}
  InitVal = 0
  NoVal = NoVal
  WordMod = 16
  OnNode = {}
  NestedRemote = FALSE
  MaxDepth = 1
  MaxOps = 2
  MaxCommits = 3
SPECIFICATION HSpec
INVARIANT Serializable
CHECK_DEADLOCK FALSE
