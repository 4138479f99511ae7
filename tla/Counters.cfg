\* The statistics of every execution of up to five accesses; the first line of
\* memory, which a cold lookup matches, is not used.
SPECIFICATION Spec
CONSTANTS
  TagSpace = 4
  NumSets = 1
  Words = {w1}
  v1 = v1
  v2 = v2
  Values <- OneValue
  NaN = NaN
  NumCaches = 2
  PrivateAssoc = 1
  LLCAssoc = 1
  MainAssoc = 2
  Lines <- HighLines
  Counting = TRUE
  MaxAccesses = 5
INVARIANTS WritebacksArrive MissesGoBelow MissesOnInvalidAreCaused
PROPERTY ForgetsOnlyWhenMainFull
CHECK_DEADLOCK FALSE
