CONSTANTS
    c1 = c1
    c2 = c2
    shd = shd
    x1 = x1
    x2 = x2
    Clients = {c1, c2, shd}
    Txns = {x1, x2}
    AFR_QUORUM_AUTO = AUTO
    Healer = shd
    Volumes = {"overdue"}
    Volume <- Chosen
    Heal <- ChosenHeal
    None = None
CHECK_DEADLOCK FALSE
SPECIFICATION HealSpec
INVARIANT Trustworthy
