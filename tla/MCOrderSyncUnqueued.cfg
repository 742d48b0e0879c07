\* The server loses its connection to a redis instance.
SPECIFICATION Spec
CONSTANTS
    Conns = {c1, c2, c3}
    NoConn = NoConn
    NoPacket = NoPacket
    MaxBreaks = 2
    Faults = {"srvRedis"}
    Orders <- TwoOrders
    ReplyUnits = 2
    ErrorTimes = 1
    Svids = {1, 2}
    Months = {1, 2}
SYMMETRY Symmetry
INVARIANTS AnsweredIsQueued
CHECK_DEADLOCK FALSE
