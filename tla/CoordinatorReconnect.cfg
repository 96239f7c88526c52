CONSTANTS
    n1 = n1
    n2 = n2
    c1 = c1
    c2 = c2
    r1 = r1
    r2 = r2
    NodeId = {n1}
    Conn = {c1, c2}
    Req = {r1}
    NodeOf <- SameNode
    NoConn = NoConn
    NoReq = NoReq
    MaxPings = 1
SPECIFICATION Spec
CHECK_DEADLOCK FALSE
INVARIANTS
    NoDeadEntry
    ListedUnlessReconnected
