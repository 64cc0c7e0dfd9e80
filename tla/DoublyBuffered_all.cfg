\* One processor thread and two threads of key -1; every thread both reads and
\* modifies, at most 2 modifications of 2 kinds.
SPECIFICATION FairSpec
CONSTANTS
    p0 = p0
    u1 = u1
    u2 = u2
    NoThread = NoThread
    o1 = o1
    o2 = o2
    Threads <- MCThreads
    Keys <- MCKeys
    KeyOf <- MCKeyOf
    Ops <- MCOps
    MaxMods = 2
INVARIANTS
    TypeOK
    ReadersExclude
    CopiesInStep
PROPERTIES
    ImplementsRegister
    CallsFinish
