CONSTANTS
    Key = {kA, kB}
    NoKey = NoKey
    BufCap = 1
    MaxMsgs = 3
    MaxChunks = 2
SPECIFICATION FairSpec
CHECK_DEADLOCK FALSE
INVARIANTS
    IInv
    NoSendOnClosed
    DownloadIntact
    SignedOnce
    RepliesThenBytes
PROPERTIES
    ImplementsTunnel
    ChannelEnds
    ServiceEndReachesClient
    ReadLoopLeaves
