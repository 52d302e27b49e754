CONSTANTS
    f1 = f1
    f2 = f2
    Reqs = {1, 2, 3}
    Fds = {f1, f2}
    Programs <- Mixed
    Confs <- WideNarrow
    ULLONG_MAX = 3
    MaxErrors = 1
    None = None
SPECIFICATION Spec
CHECK_DEADLOCK FALSE
INVARIANTS
    InOrder
    NoOverlapInProgress
    FlushTellsErrors
    NoDangling
