CONSTANTS
    Restores = {r1, r2, r3}
    Old = old
    Stray = stray
    None = none
    FreshMixes = FALSE
    MayOverlap = FALSE
    MayFail = TRUE
    MarkerFails = FALSE
SPECIFICATION Spec
SYMMETRY RestoreSymmetry
INVARIANTS UnmarkedIsAgreed NoForeignJournal NothingDestroyed
CHECK_DEADLOCK FALSE
