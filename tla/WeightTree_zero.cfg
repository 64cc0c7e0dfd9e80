\* The total lags behind, and a new server gets no weight.
SPECIFICATION Spec
CONSTANTS
    s1 = s1
    s2 = s2
    s3 = s3
    c1 = c1
    c2 = c2
    u1 = u1
    u2 = u2
    Servers = {s1, s2, s3}
    Start <- OneServer
    Callers = {c1, c2}
    Updaters = {u1}
    None = None
    Weights = {2, 4}
    Scale = 2
    MaxOps = 3
    MaxCalls = 2
CHECK_DEADLOCK FALSE
INVARIANT SumsSettle
