\* Two transactions acquire one word (expected violation).
CONSTANTS
  NumProcs = 2
  Word = {0}
  ShareSize = 1
  NodeOf <- NodesAlternate
  Val = {1}
  InitVal = 0
  NoVal = NoVal
  MaxDepth = 1
  MaxOps = 3
  MaxCommits = 2
  MaxSent = 1
SPECIFICATION MCSpec
INVARIANTS OwnershipExact
