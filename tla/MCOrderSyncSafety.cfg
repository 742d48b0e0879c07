\* Every fault but a reply delivered in pieces.
SPECIFICATION Spec
CONSTANTS
    Conns = {c1, c2, c3}
    NoConn = NoConn
    NoPacket = NoPacket
    MaxBreaks = 2
    Faults = {"reset", "idle", "timeout", "serverRestart", "crash", "srcRedis", "lookup", "srvRedis", "dbSync"}
    Orders <- OneOrder
    ReplyUnits = 2
    ErrorTimes = 1
    Svids = {1, 2}
    Months = {1, 2}
SYMMETRY Symmetry
INVARIANTS TypeOK OneRequestInFlight SettledIsServed FirstCopiesInOrder RowsFollowSource RowsInTheirMonth
PROPERTIES RowsGoBackOnlyByCopies ImplementsPipe
CHECK_DEADLOCK FALSE
