\* Two processors; the heapinfo table of one block grows to two blocks.
CONSTANTS
  p1 = p1
  p2 = p2
  Proc = {p1, p2}
  Home = p1
  Top = 8
  HeapTable = 4
  InfoPerBlock = 4
  FINAL_FREE_BLOCKS = 2
  Log = {1}
  PerBlock <- Quarters
  Sizes = {1, 2, 3}
  Collective <- OneBlock
  MaxInUse = 2
  MaxInTx = 2
  Interleaved = FALSE
SPECIFICATION Spec
INVARIANTS TypeOK NoLeak ReadersAgree BooksSound HeapServes
PROPERTIES DistinctAllocations
