SPECIFICATION Spec
CONSTANTS
  Clients = {"c1", "c2"}
  Txns = {"t1", "t2", "t3"}
  child_count = 2
  Dirs = {1, 2}
  NULL = NULL
  Programs <- Broken
  ClientOf <- Users
  MaxBreaks = 1
INVARIANT HeldIfConnected
CHECK_DEADLOCK FALSE
