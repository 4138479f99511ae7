\* Two threads, of which one writes to its stack.
SPECIFICATION Spec
SYMMETRY ThreadSymmetry
CONSTANTS
  Threads = {t1, t2}
  Heap = {x}
  Stack = {sp}
  Vals = {1}
  NaN = NaN
  NULL = NULL
  Containers = 1
  Kinds = {"write", "other"}
  InstrumentAll = TRUE
  MaxPending = 3
INVARIANT StackIgnored
