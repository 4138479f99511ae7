\* Two threads, two protocols: the slot, the lock, the reset without it, and the
\* instrumentation switches.
SPECIFICATION FairSpec
CONSTANTS
  Threads = {t1, t2}
  Heap = {x}
  Stack = {sp}
  Vals = {1}
  NaN = NaN
  NULL = NULL
  Containers = 2
  Kinds = {"read", "write", "other"}
  InstrumentAll = FALSE
  MaxPending = 1
INVARIANTS DriverTypeOK NoCrossTalk ContainersInStep OwesAtMostOne
PROPERTY LockReleased
