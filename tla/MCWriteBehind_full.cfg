CONSTANTS
    f1 = f1
    f2 = f2
    Reqs = {1, 2, 3, 4}
    Fds = {f1, f2}
    Programs <- Four
    Confs <- Full
    ULLONG_MAX = 4
    MaxErrors = 0
    None = None
SPECIFICATION Spec
CHECK_DEADLOCK FALSE
INVARIANT InOrder
