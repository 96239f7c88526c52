CONSTANTS
    Key = {kA, kB}
    NoKey = NoKey
    BufCap = 2
    MaxMsgs = 4
    MaxChunks = 1
SPECIFICATION ChannelSpec
CHECK_DEADLOCK FALSE
INVARIANTS
    ConnectsWhatWasAsked
