\* An idle connection is closed by the server and one connect fails.
SPECIFICATION FairSpec
CONSTANTS
    Conns = {c1, c2}
    NoConn = NoConn
    NoPacket = NoPacket
    MaxBreaks = 2
    Faults = {"idle"}
    Orders <- TwoOrders
    ReplyUnits = 2
    ErrorTimes = 1
    Svids = {1, 2}
    Months = {1}
PROPERTIES EveryOrderIsFetched

CHECK_DEADLOCK FALSE
