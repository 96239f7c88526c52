CONSTANTS
    n1 = n1
    n2 = n2
    c1 = c1
    c2 = c2
    r1 = r1
    r2 = r2
    NodeId = {n1}
    Conn = {c1}
    Req = {r1, r2}
    NodeOf <- SameNode
    NoConn = NoConn
    NoReq = NoReq
    MaxPings = 0
SPECIFICATION FairSpec
CHECK_DEADLOCK FALSE
PROPERTIES
    OfferTimesOut
