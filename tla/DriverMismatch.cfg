\* The same program, and two containers.
SPECIFICATION Spec
CONSTANTS
  Threads = {t1}
  Heap = {x}
  Stack = {}
  Vals = {1, 2}
  NaN = NaN
  NULL = NULL
  Containers = 2
  Kinds = {"read", "write", "update"}
  InstrumentAll = TRUE
  MaxPending = 3
INVARIANT MismatchReported
