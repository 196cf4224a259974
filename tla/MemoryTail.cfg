CONSTANTS
    Tasks = {k1, k2, k3}
    Drains = {d1}
    ConcurrentSetting = 1
    OutstandingSetting = 2
    Replies <- MCReplies
    Ttl = 2
    Window = 1
    EmptyRun = 2
    MaxClock = 2
    MaxTroubles = 1
SPECIFICATION TailSpec
INVARIANTS LossIsSeen StoredIsStored
PROPERTIES DrainsReturn RoomIsRecent
CHECK_DEADLOCK FALSE
