CONSTANTS
    N = 7
    Callers = 2
    Late = FALSE
    Recent = 3
    Target = 5
    Limits = {5, 8, 11, 20, 27}
    Line = 1
    Budget = 4
    Rounds = 2
    MaxTrims = 3
    Sizings <- MCSizings
    CallerSize <- MCCallerSize
    StandinSizes <- MCStandinSizes
    MemoryScales = {1, 2}
SPECIFICATION Spec
INVARIANTS NothingUnsaid CertifiedFits FailsEmptyHanded UsersOwnStays
PROPERTIES ShedsByValue
CHECK_DEADLOCK FALSE
