\* Three vertices each: does a claimed vertex stay claimed?
CONSTANTS
  NumProcs = 2
  local_num_v = 3
  Graphs <- TwoClusters
  MaxClusterSize = 2
  StartSearch = 2
  LinkWeight = 1
  Uninit = {0}
SPECIFICATION Spec
INVARIANT ClaimedOnce
CHECK_DEADLOCK FALSE
