CONSTANTS
    Tasks = {k1, k2, k3, k4}
    Drains = {d1, d2}
    ConcurrentSetting = 1
    OutstandingSetting = 2
SPECIFICATION LoopSpec
INVARIANTS WithinBounds
PROPERTIES DrainsReturn AcceptedEnds
CHECK_DEADLOCK FALSE
