SPECIFICATION Spec
CONSTANTS
  Requests = {"f1", "l1"}
  Locks = {"l1"}
  Programs <- OnlySilent
INVARIANT SentAttached
CHECK_DEADLOCK FALSE
