CONSTANTS
    Convs = {a}
    Full = 4
    Interval = 2
    RetainAge = 1
    WeekLen = 3
    Weeks = 1
    Floor = 1
    Hatch = TRUE
    MaxClock = 5
    MaxFaults = 3
SPECIFICATION Spec
INVARIANTS LossIsTold NoRestartStorm WeeklyRestorePoint
PROPERTIES PublishesInTheEnd
CHECK_DEADLOCK FALSE
