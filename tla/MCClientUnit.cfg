\* Replies of two units, a kernel buffer that holds three, reads of up to five.
SPECIFICATION FairUnitSpec
CONSTANTS
    Streams <- MCStreams
    HeadSize = 2
    ReplySize = 2
    MaxWebRecvLen = 5
    SendRoom = 3
    MaxSendErrors = 3
INVARIANTS UnitTypeOK NoByteLost OutputIsWatched
PROPERTIES ImplementsSession RequestsAreAnswered
CHECK_DEADLOCK FALSE
