SPECIFICATION FairSpec
CHECK_DEADLOCK FALSE
CONSTANTS
    t1 = t1  t2 = t2  k1 = k1  k2 = k2  k3 = k3
    Threads = {t1, t2}
    Coroutines = {k1, k2, k3}
    None = None
    defaultThreadNum = 2
    Tids <- MCTids
INVARIANTS
    TypeOK
    MutualExclusion
PROPERTIES
    FallsInARace
    AllEnd
