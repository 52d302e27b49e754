CONSTANTS
    c1 = c1
    c2 = c2
    x1 = x1
    x2 = x2
    x3 = x3
    Clients = {c1, c2}
    Txns = {x1, x2}
    AFR_QUORUM_AUTO = AUTO
    Volumes = {"errors", "split", "delayed", "power"}
    Volume <- Chosen
    None = None
CHECK_DEADLOCK FALSE
SPECIFICATION FairSpec
INVARIANTS
    SourceHasAll
    SoundAtOnce
PROPERTY Answered
