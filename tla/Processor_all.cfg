\* Every call, two creators (one a coroutine), recycled blocks: 2 coroutines in
\* 2 blocks, the second in the block of the first or next to it.
\* A processor with nothing to do stays in epoll_wait, and the clock is bounded:
\* behaviours may end.
SPECIFICATION FairSpec
CHECK_DEADLOCK FALSE
CONSTANTS
    LoopThread = LoopThread
    None = None
    c1 = c1
    c2 = c2
    f1 = f1
    f2 = f2
    NBlocks = 2
    Creators = {c1}
    Fds <- MCFds
    FdOf <- MCFdOf
    Calls = {"sleep", "wait", "block"}
    Naps = {1, 2}
    CanStop = TRUE
    MaxTime = 2
    MaxCreated = 2
    MaxCalls = 2
INVARIANTS
    TypeOK
    DrainedQueueIsPrivate
    BlocksAreSound
    WorkWillBeSeen
PROPERTIES
    ImplementsLife
    ResumedForCause
    WorkIsDone
