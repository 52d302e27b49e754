CONSTANTS
    c1 = c1
    c2 = c2
    o1 = o1
    o2 = o2
    Clients = {c1, c2}
    Owners = {o1, o2}
    Threads = {t1, t2}
    Locks = {l1, l2, l3}
    Requests <- Ranges
    LLONG_MAX = 3
    LocksPerOwner = 3
    NoThread = NoThread
    NoLock = NoLock
    NoClient = NoClient
SYMMETRY Perms
SPECIFICATION Spec
INVARIANTS
    TypeOK
    RefsExact
    AnsweredOnce
    ClientGone
    InodeRefExact
    MutualExclusion
    NoLostWakeup
PROPERTY ImplementsLockService
