\* Callers, and an updater that lets the tree grow, shrink and move nodes.
SPECIFICATION FairSpecW
CONSTANTS
    s1 = s1
    s2 = s2
    s3 = s3
    c1 = c1
    c2 = c2
    u1 = u1
    Servers = {s1, s2, s3}
    Start <- TwoServers
    Callers = {c1}
    Updaters = {u1}
    None = None
    Weights = {2}
    Scale = 2
    MaxOps = 2
    MaxCalls = 3
    Window = 2
CHECK_DEADLOCK FALSE
INVARIANTS
    EqualShares
    NobodyIsLost
PROPERTY CallsReturn
