CONSTANTS
    f1 = f1
    f2 = f2
    o1 = o1
    o2 = o2
    t1 = t1
    t2 = t2
    x1 = x1
    x2 = x2
    x3 = x3
    MaxRequests = 4
    Fds = {f1, f2}
    Owners = {o1, o2}
    Threads = {t1, t2}
    Frames = {x1, x2, x3}
    LLONG_MAX = 2
    Requests <- NextToReader
    Migrations <- NoSwitch
    NoThread = NoThread
    NoFd = NoFd
    NoRequest = NoRequest
SYMMETRY Symmetric
SPECIFICATION Spec
INVARIANT WaitsForConflict
CHECK_DEADLOCK FALSE
