\* The READ_VERSIONING build with versions that wrap: nested transactions,
\* of the processor that has both words and of another, which moves there;
\* they open the two blocks as one range and fail in the middle of it.
CONSTANTS
  READ_VERSIONING = TRUE
  WRITE_BUFFERING = FALSE
  LATE_ACQUIRE = FALSE
  NumProcs = 2
  Client = {0, 1}
  Word = {0, 1}
  ShareSize = 1
  NodeOf <- NodesLast
  Extent <- Whole
  Val = {0}
  InitVal = 0
  NoVal = NoVal
  WordMod = 8
  OnNode = {1}
  NestedRemote = FALSE
  MaxDepth = 2
  MaxOps = 1
SPECIFICATION Spec
INVARIANTS LockExact NothingLeftBehind
PROPERTY HeldToTheEnd
