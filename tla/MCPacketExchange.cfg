SPECIFICATION PacketSpec
CONSTANTS
    BufferSize = 320
    MaxPacket = 300
    ClientId = 7
    FirstEvents <- MCFirstEvents
    Jsons <- MCJsons
    MaxRequests = 2
    Pieces = {20, 23, 120}
    Stacks <- MCStacks
    Places = {17, 26}
    Deltas = {1, 128}
    MaxDamages = 1
INVARIANTS PacketTypeOK FramesAreCut RequestIsRead ReplyConfirms DamageIsNoticed
CHECK_DEADLOCK FALSE
