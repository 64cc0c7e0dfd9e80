\* One updater adds a server, the other one removes it.
SPECIFICATION Spec
CONSTANTS
    s1 = s1
    s2 = s2
    s3 = s3
    c1 = c1
    c2 = c2
    u1 = u1
    u2 = u2
    Servers = {s1, s2, s3}
    Start <- OneServer
    Callers = {}
    Updaters = {u1, u2}
    None = None
    Weights = {2, 3}
    Scale = 2
    MaxOps = 2
    MaxCalls = 2
CHECK_DEADLOCK FALSE
INVARIANT TreeIsKnown
