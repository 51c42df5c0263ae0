SPECIFICATION Spec
CONSTANTS
    Units = {"nginx", "sshd", "cron"}
    Watched = {"cron"}
    Capacity = 2
    MaxChanges = 3
INVARIANT
    InOrder
PROPERTIES
    EventuallyKnown
    CancelledEnds
CHECK_DEADLOCK FALSE
