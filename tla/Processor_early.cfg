\* A sleep next to a coroutine that gives way.
\* A processor with nothing to do stays in epoll_wait, and the clock is bounded:
\* behaviours may end.
SPECIFICATION Spec
CHECK_DEADLOCK FALSE
CONSTANTS
    LoopThread = LoopThread
    None = None
    c1 = c1
    c2 = c2
    f1 = f1
    f2 = f2
    NBlocks = 2
    Creators = {c1}
    Fds <- MCFds
    FdOf <- MCFdOf
    Calls = {"sleep", "block"}
    Naps = {2}
    CanStop = FALSE
    MaxTime = 3
    MaxCreated = 2
    MaxCalls = 3
PROPERTIES
    EveryoneResumedForCause
