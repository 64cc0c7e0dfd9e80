\* A server starts while the first list is being installed.
SPECIFICATION Spec
CONSTANTS
    user = user
    watcher = watcher
    Servers = {1, 2}
    Users = {user}
    Watcher = watcher
    None = None
    MaxStarts = 1
CHECK_DEADLOCK FALSE
INVARIANT ListIsCurrent
