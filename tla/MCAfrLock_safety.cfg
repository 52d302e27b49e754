SPECIFICATION Spec
CONSTANTS
  Clients = {"c1", "c2"}
  Txns = {"t1", "t2", "t3"}
  child_count = 2
  Dirs = {1, 2}
  NULL = NULL
  Programs <- All
  ClientOf <- Users
  MaxBreaks = 1
INVARIANTS Exclusion HeldInFop NoLeak NoDeadlock
CHECK_DEADLOCK FALSE
