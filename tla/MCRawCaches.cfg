\* Two caches, blocks of 2, 4, 8 and 16 bytes, 34 bytes in all.
SPECIFICATION CachesSpec
CONSTANTS
    Caches = {r, w}
    MarkMod = 2
    Chunks = {1, 4}
    Skips = {3}
    MaxLen = 8
    MinBlock = 2
    TopExponent = 3
    ExtendSet = 2
    Slot1 = 4
    Slot2 = 8
    MaxPool = 34
    MaxWaterMark = 20
SYMMETRY Symmetry
INVARIANTS CachesTypeOK BlocksAreKeptOnce PoolIsBounded
PROPERTIES ImplementsByteQueues
CHECK_DEADLOCK FALSE
