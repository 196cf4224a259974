CONSTANTS
    Requests = {r1, r2, r3}
    History = History
    Exchanges = 2
    MayCrash = TRUE
    MayCancel = FALSE
    MayForget = FALSE
    MayDamage = FALSE
    MayShed = FALSE
SPECIFICATION BackfillSpec
SYMMETRY Symmetry
INVARIANTS CrashedIsRetried
CHECK_DEADLOCK FALSE
