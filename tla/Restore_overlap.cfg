CONSTANTS
    Restores = {r1, r2}
    Old = old
    Stray = stray
    None = none
    FreshMixes = FALSE
    MayOverlap = TRUE
    MayFail = TRUE
    MarkerFails = FALSE
SPECIFICATION Spec
SYMMETRY RestoreSymmetry
INVARIANT UnmarkedIsAgreed
CHECK_DEADLOCK FALSE
