CONSTANTS
    f1 = f1
    f2 = f2
    Reqs = {1, 2, 3}
    Fds = {f1, f2}
    Programs <- Three
    Confs <- OnlyWide
    ULLONG_MAX = 3
    MaxErrors = 0
    None = None
SPECIFICATION Spec
CHECK_DEADLOCK FALSE
INVARIANT NoneLeft
