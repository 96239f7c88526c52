CONSTANTS
    Key = {kA, kB}
    NoKey = NoKey
    BufCap = 2
    MaxMsgs = 4
    MaxChunks = 1
SPECIFICATION ChannelFairSpec
CHECK_DEADLOCK FALSE
INVARIANTS
    ClientIInv
    ModesAgree
    CommandsStayOut
    VerifyCompletes
    VerifiedByOwnProof
PROPERTIES
    PipeModeSilent
    CallsReturn
