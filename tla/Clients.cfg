SPECIFICATION Spec
CONSTANTS
    Node = {1, 2}
    MaxMsgs = 3
    ReceivedCap = 2
INVARIANTS
    OneLivePeer
    PassIsPaired
PROPERTIES
    DialSettles
    CreateSettles
    CliExits
