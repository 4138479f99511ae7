\* Lines of two words in a hierarchy of one-way caches: every level evicts.
SPECIFICATION Spec
SYMMETRY ValueSymmetry
CONSTANTS
  TagSpace = 4
  NumSets = 1
  Words = {w1, w2}
  v1 = v1
  v2 = v2
  Values <- TwoValues
  NaN = NaN
  NumCaches = 2
  PrivateAssoc = 1
  LLCAssoc = 1
  MainAssoc = 1
  Lines <- Lines2
  Counting = FALSE
  MaxAccesses = 0
INVARIANTS TypeOK FlagsAgree ReadsReturnMemory ImplementsMemory
