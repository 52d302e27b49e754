SPECIFICATION FairSpec
CONSTANTS
  Nodes = {"n1", "n2", "n3"}
  Volumes = {"v1", "v2"}
  Txns = {"t1", "t2", "t3"}
  NULL = NULL
  HEAD = HEAD
  Programs <- Sound
  MaxBreaks = 1
  MaxCalls = 3
INVARIANTS Exclusion SuccessMeansAll NoStaleLock
PROPERTIES CommitsUnderLock Ends
CHECK_DEADLOCK FALSE
