\* Three descriptors, two accepts to a call; slots for one connection or for four.
\* Two faults: accepts that fail, or settings of the clock by as much as any timeout.
SPECIFICATION ServerSpec
CONSTANTS
    TimerObjects <- MCObjects
    Timeouts <- MCTimeouts
    RealTimer = 4
    RealTimeout = 2
    WebTimeout = 1
    MaxWait = 1
    MaxLag = 1
    MaxBack = 2
    MaxAhead = 1
    MaxFds = 3
    SlotChoices = {2, 5}
    AcceptCnt = 2
    MaxBacklog = 1
    MaxFaults = 2
INVARIANTS ServerTypeOK ListsHoldTheLiving DescriptorsAreServed SlotsSuffice TimersInTime
PROPERTIES NeverEndedEarly RoundsGoOn
CHECK_DEADLOCK FALSE
