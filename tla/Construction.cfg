\* The numbers of caches whose rounded-up logarithm is 1, 2 or 4.
SPECIFICATION Spec
CONSTANTS
  Width = 30
  CacheCounts <- LogsOfPowersOfTwo
  CacheSizes = {1024}
  Assocs = {1, 2}
  BlockSizes = {32, 64}
  Protocols = 2
INVARIANTS ConstructionTypeOK RowsInside AddressesSplit BuiltAsModelled SnippetsRoundUp
\* main ends where the program starts, or in an exit or a crash.
CHECK_DEADLOCK FALSE
