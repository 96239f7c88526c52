CONSTANTS
    Offer = {o1, o2}
    MaxConns = 2
SPECIFICATION FairSpec
CHECK_DEADLOCK FALSE
INVARIANTS
    IInv
    CleanExit
PROPERTIES
    ShutdownCompletes
    Reconnects
    NoPingerLeak
