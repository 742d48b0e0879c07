\* Replies delivered in pieces: the client lets go of a packet too early.
SPECIFICATION Spec
CONSTANTS
    Conns = {c1, c2, c3}
    NoConn = NoConn
    NoPacket = NoPacket
    MaxBreaks = 2
    Faults = {"fragment", "reset"}
    Orders <- TwoOrders
    ReplyUnits = 3
    ErrorTimes = 1
    Svids = {1, 2}
    Months = {1, 2}
SYMMETRY Symmetry
INVARIANTS SettledIsServed
CHECK_DEADLOCK FALSE
