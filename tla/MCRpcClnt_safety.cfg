SPECIFICATION FairSpec
CONSTANTS
  Requests = {"f1", "l1"}
  Locks = {"l1"}
  Programs <- AllCases
INVARIANTS AnsweredOnce KeepsTrying Guarded
PROPERTIES Answered
CHECK_DEADLOCK FALSE
