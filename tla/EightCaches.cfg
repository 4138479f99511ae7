SPECIFICATION Spec
CONSTANTS
  Width = 30
  CacheCounts <- FiveToEight
  CacheSizes = {1024}
  Assocs = {2}
  BlockSizes = {32}
  Protocols = 1
INVARIANT PowersOfTwo
CHECK_DEADLOCK FALSE
