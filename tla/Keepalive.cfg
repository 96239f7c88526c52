CONSTANTS
    PingInterval = 4
    DropAfter = 12
    PruneInterval = 2
    MaxDelay = 7
    MaxTime = 36
SPECIFICATION Spec
CHECK_DEADLOCK FALSE
INVARIANTS
    LiveNodeKept
    VanishedNodeDropped
    IInv
