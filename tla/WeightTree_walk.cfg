\* A walk over a tree that has just shrunk or is about to grow.
SPECIFICATION Spec
CONSTANTS
    s1 = s1
    s2 = s2
    s3 = s3
    c1 = c1
    c2 = c2
    u1 = u1
    u2 = u2
    Servers = {s1, s2, s3}
    Start <- TwoServers
    Callers = {c1}
    Updaters = {u1}
    None = None
    Weights = {2, 3}
    Scale = 2
    MaxOps = 1
    MaxCalls = 1
CHECK_DEADLOCK FALSE
INVARIANT WalkStaysInTree
