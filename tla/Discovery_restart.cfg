\* A server is restarted before its old session has expired.
SPECIFICATION Spec
CONSTANTS
    user = user
    watcher = watcher
    Servers = {1}
    Users = {user}
    Watcher = watcher
    None = None
    MaxStarts = 2
CHECK_DEADLOCK FALSE
INVARIANT RunningIsRegistered
