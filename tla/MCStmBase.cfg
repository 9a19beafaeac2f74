\* The default build: early acquire, read locks, undo log; two-word blocks
\* and an unaligned range over two of them.
CONSTANTS
  READ_VERSIONING = FALSE
  WRITE_BUFFERING = FALSE
  LATE_ACQUIRE = FALSE
  NumProcs = 2
  Client = {0, 1}
  Word = {0, 1, 2}
  ShareSize = 2
  NodeOf <- NodesLast
  Extent <- SinglesAndPair
  Val = {0, 1}
  InitVal = 0
  NoVal = NoVal
  WordMod = 16
  OnNode = {1}
  NestedRemote = FALSE
  MaxDepth = 1
  MaxOps = 2
SPECIFICATION Spec
INVARIANTS TypeOK LockExact ReadsCurrent
PROPERTIES AtomicSpec OnlyConflictsAbort
