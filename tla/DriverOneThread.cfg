\* One thread, instrumented throughout.
SPECIFICATION HistorySpec
CONSTANTS
  Threads = {t1}
  Heap = {x, y}
  Stack = {sp}
  Vals = {1, 2}
  NaN = NaN
  NULL = NULL
  Containers = 2
  Kinds = {"read", "write", "other"}
  InstrumentAll = TRUE
  MaxPending = 3
INVARIANTS ReadsSeeTheProgram StackIgnored AtMostOnePending
