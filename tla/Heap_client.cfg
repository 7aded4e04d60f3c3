\* Sizes of none, one and five words in a heap of at most five blocks of 24 bytes.
SPECIFICATION Spec
CONSTANTS
  MaxHeap = 152
  MIN_BLK_BITS = 5
  MAX_BLK_BITS = 6
  Requests = {0, 4, 20}
  Tags <- MCTags
INVARIANTS HeapTiles UsedAreOwned FreeBlocksListed
PROPERTIES GrowsWhenFull AbsSpec
VIEW LiveView
CHECK_DEADLOCK FALSE
