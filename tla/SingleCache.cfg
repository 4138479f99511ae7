\* The default of the numcaches knob.
SPECIFICATION Spec
CONSTANTS
  Width = 30
  CacheCounts = {1}
  CacheSizes = {1024}
  Assocs = {2}
  BlockSizes = {32}
  Protocols = 1
INVARIANT ConstructionCompletes
CHECK_DEADLOCK FALSE
