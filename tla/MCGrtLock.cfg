\* Two locks on two nodes, three processors that take one at a time.
CONSTANTS
  NumProcs = 3
  Lock = {0, 1}
  HomeOf <- HomesSpread
  Types = {"READ", "WRITE"}
  MaxHeld = 1
SPECIFICATION FairSpec
INVARIANTS TypeOK HoldersExact NoLostWakeup NoStrayGrant
PROPERTIES ReaderWriterLock WritersQueue EveryRequestGranted
