CONSTANTS
    Tasks = {t1}
    Drains = {f1}
    ConcurrentSetting = 1
    OutstandingSetting = 1
    Past = Past
    NoOne = NoOne
    Stored = {"summary"}
    Broken = {}
    Malformed = {}
    Stuck = {}
    Pressure = FALSE
SPECIFICATION ForgetSpec
INVARIANTS SettledIsStill
CHECK_DEADLOCK FALSE
