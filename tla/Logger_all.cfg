SPECIFICATION Spec
CHECK_DEADLOCK FALSE
CONSTANTS
    t1 = t1  t2 = t2  a1 = a1
    Threads = {t1, t2}
    Appenders = {a1}
    None = None
    Formats <- MCFormats
    Levels <- MCLevels
    MaxLoggers = 2
    MaxOps = 2
INVARIANTS
    TypeOK
    SharedUnlessRaced
    LinesAsDocumented
