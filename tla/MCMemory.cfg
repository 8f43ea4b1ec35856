SPECIFICATION MemSpec
CONSTANTS
  Regions <- MCRegions
  Header = 1
  MinBuffer = 1
  Sizes = {0, 1, 2, 4}
  PoolNum = 2
  PoolPages = 3
INVARIANTS
  BlocksTileRegions
  FreeListIsCoalesced
  PoolsAreExact
