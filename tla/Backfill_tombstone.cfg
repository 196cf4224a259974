CONSTANTS
    Requests = {r1, r2, r3}
    History = History
    Exchanges = 2
    MayCrash = FALSE
    MayCancel = FALSE
    MayForget = TRUE
    MayDamage = FALSE
    MayShed = FALSE
SPECIFICATION BackfillSpec
SYMMETRY Symmetry
INVARIANTS TombstoneHolds
CHECK_DEADLOCK FALSE
