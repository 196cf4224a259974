CONSTANTS
    Requests = {r1, r2, r3}
    History = History
    Exchanges = 2
    MayCrash = FALSE
    MayCancel = FALSE
    MayForget = FALSE
    MayDamage = FALSE
    MayShed = TRUE
SPECIFICATION BackfillSpec
SYMMETRY Symmetry
INVARIANTS InProgressIsTrue
CHECK_DEADLOCK FALSE
