CONSTANTS
    Requests = {r1, r2, r3}
    History = History
    Exchanges = 2
    MayCrash = TRUE
    MayCancel = TRUE
    MayForget = TRUE
    MayDamage = TRUE
    MayShed = TRUE
SPECIFICATION BackfillLive
INVARIANTS CompleteIsTrue
PROPERTIES OnlyAdds
CHECK_DEADLOCK FALSE
