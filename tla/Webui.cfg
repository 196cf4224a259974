CONSTANTS
    Chats = {a, b}
    Daemon = daemon
    Operator = operator
    MaxClock = 3
    MaxFaults = 2
    MayStall = TRUE
    LockDegrades = FALSE
SPECIFICATION Spec
INVARIANTS SkipIsSound
PROPERTIES DurableSnapshot NoRowGoesBack NeverEmptyOverHistory CatchesUp
