SPECIFICATION Spec
CONSTANTS
  Nodes = {"n1", "n2", "n3"}
  Volumes = {"v1", "v2"}
  Txns = {"t1", "t2", "t3"}
  NULL = NULL
  HEAD = HEAD
  Programs <- Shared
  MaxBreaks = 1
  MaxCalls = 3
INVARIANT NoStaleLock

CHECK_DEADLOCK FALSE
