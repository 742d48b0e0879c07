\* One event for both directions is enough to close a healthy connection.
SPECIFICATION UnitSpec
CONSTANTS
    Streams <- MCStreams
    HeadSize = 2
    ReplySize = 2
    MaxWebRecvLen = 5
    SendRoom = 3
    MaxSendErrors = 3
PROPERTIES FailedResponsesExist
CHECK_DEADLOCK FALSE
