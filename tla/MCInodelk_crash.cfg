CONSTANTS
    c1 = c1
    c2 = c2
    o1 = o1
    o2 = o2
    Clients = {c1, c2}
    Owners = {o1}
    Threads = {t1, t2}
    Locks = {l1, l2}
    Requests <- Crashing
    LLONG_MAX = 3
    LocksPerOwner = 1
    NoThread = NoThread
    NoLock = NoLock
    NoClient = NoClient
SPECIFICATION CrashSpec
PROPERTIES
    DisconnectCompletes
    RequestServed
