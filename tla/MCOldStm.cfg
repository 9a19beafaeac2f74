\* Two processors with a word each; two threads serve each node.
CONSTANTS
  NumProcs = 2
  Word = {0, 1}
  ShareSize = 1
  NodeOf <- NodesAlternate
  Val = {1}
  InitVal = 0
  NoVal = NoVal
  MaxDepth = 2
  MaxOps = 3
  MaxCommits = 2
  MaxSent = 1
SPECIFICATION UntilOvertaken
INVARIANTS
  TypeOK OwnedBySomebody ExactUnlessOvertaken VersionNamesValue
  SerializableUnlessOvertaken
