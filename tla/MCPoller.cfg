\* Three objects that compete for two slots; sequence numbers of two bits.
SPECIFICATION PollerSpec
CONSTANTS
    Objects = {o1, o2, o3}
    NoObject = NoObject
    MaxPollers = 2
    SeqMod = 4
    MaxLives = 2
SYMMETRY Symmetry
INVARIANTS PollerTypeOK EverySlotOnce NobodyIsDeaf EventsReachTheirOwner
PROPERTIES CallsLiveObjects
CHECK_DEADLOCK FALSE
