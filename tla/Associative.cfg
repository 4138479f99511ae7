\* Two-way private caches: the order of the rows and the choice of victims.
SPECIFICATION Spec
CONSTANTS
  TagSpace = 4
  NumSets = 1
  Words = {w1}
  v1 = v1
  v2 = v2
  Values <- OneValue
  NaN = NaN
  NumCaches = 2
  PrivateAssoc = 2
  LLCAssoc = 1
  MainAssoc = 1
  Lines <- Lines3
  Counting = FALSE
  MaxAccesses = 0
INVARIANTS OneLiveCopyPerCache ReadsReturnMemory ProbeAfterAccess
PROPERTY LosesOnlyOldestOrInvalidated
