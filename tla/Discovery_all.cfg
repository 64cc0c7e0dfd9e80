\* Servers come and go; the user's thread and the watch thread install lists.
SPECIFICATION FairSpec
CONSTANTS
    user = user
    watcher = watcher
    Servers = {1, 2}
    Users = {user}
    Watcher = watcher
    None = None
    MaxStarts = 2
CHECK_DEADLOCK FALSE
INVARIANTS
    TypeOK
    BalancerFollowsList
    QuietIsCurrent
PROPERTIES
    StaysOffered
    OfferedWhileRunning
