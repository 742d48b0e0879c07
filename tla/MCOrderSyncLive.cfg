\* Fairness, and a finite number of disruptions.
SPECIFICATION FairSpec
CONSTANTS
    Conns = {c1, c2}
    NoConn = NoConn
    NoPacket = NoPacket
    MaxBreaks = 2
    Faults = {"reset", "idle", "timeout","serverRestart"}
    Orders <- TwoOrders
    ReplyUnits = 2
    ErrorTimes = 1
    Svids = {1, 2}
    Months = {1}
PROPERTIES HeldIsAnswered QueuedIsTaken

CHECK_DEADLOCK FALSE
