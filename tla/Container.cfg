\* Four threads on three CPUs inside their accesses; as an int, thread 9 is -7.
SPECIFICATION ContainerFairSpec
CONSTANTS
  TagSpace = 4
  NumSets = 1
  Words = {w1}
  v1 = v1
  Values <- OneValue
  NaN = NaN
  NumCaches = 3
  PrivateAssoc = 1
  LLCAssoc = 1
  MainAssoc = 2
  Lines <- Lines2
  Counting = FALSE
  MaxAccesses = 0
  Tids <- FourTids
  IntLimit = 8
INVARIANTS ContainerTypeOK OneAtATime SingleWriter CopiesAgree ReadsReturn
PROPERTIES LockReturned AccessesAreAtomic ThreadsShareMemory
\* Thread 9 gets no cache and returns with the lock: the others wait for ever.
CHECK_DEADLOCK FALSE
