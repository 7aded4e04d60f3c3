SPECIFICATION Spec
CONSTANTS
  MaxRank = 3
  PageSize = 2
  Pow2 <- MCPow2
  PgCounts = {2, 3, 4}
  RankArgs <- MCRankArgs
  PtrArgs <- MCPtrArgs
  Shrinks = FALSE
INVARIANTS
  TypeOK
  BlocksPartitionPool
  ListsHoldFreeBlocks
  QueriesTrue
PROPERTIES
  AllocKeepsOrder
  AbsSpec
