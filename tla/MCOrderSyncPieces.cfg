\* Replies delivered in pieces, and order changes that one side rejects.
SPECIFICATION Spec
CONSTANTS
    Conns = {c1, c2, c3}
    NoConn = NoConn
    NoPacket = NoPacket
    MaxBreaks = 2
    Faults = {"fragment", "reset", "idle", "timeout", "srvRedis"}
    Orders <- OddOrders
    ReplyUnits = 3
    ErrorTimes = 1
    Svids = {1, 2}
    Months = {1, 2}
SYMMETRY Symmetry
INVARIANTS AnsweredIsServed
CHECK_DEADLOCK FALSE
