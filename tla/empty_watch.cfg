SPECIFICATION Spec
CONSTANTS
    Units = {"nginx", "sshd", "cron"}
    Watched = {}
    Capacity = 2
    MaxChanges = 1
PROPERTY
    EmptyWatchesAll
CHECK_DEADLOCK FALSE
