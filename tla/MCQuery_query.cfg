SPECIFICATION QuerySpec
CONSTANTS
  t1 = t1
  t2 = t2
  a1 = a1
  a2 = a2
  StoreTypes = {"leveldb", "sql"}
  Threads = {t1, t2}
  Apps = {a1, a2}
  Rows <- MCRows
  Conds <- MCConds
  Calls <- MCCalls
  MaxCalls = 3
  MaxFails = 1
  Linger = 1
  Top = 9
  MonthLen = 5
  SortThreshold = 2
  InitTime = 4
  MaxTime = 7
  None = None
INVARIANTS WindowIsExact GroupsAddUp OpenOnce SelectEndToEnd
SYMMETRY MCSymmetry
CHECK_DEADLOCK FALSE
