CONSTANTS
    Claims = {c1, c2}
    Tails = {t1, t2}
    AdminDedup = AdminDedup
    NoOne = NoOne
    Budget = 1
    MaxFacts = 2
    MaxClock = 0
    Extraction = {TRUE}
    MayDamage = {"active", "archive"}
SPECIFICATION Spec
SYMMETRY Symmetry
INVARIANTS NoSilentLoss NoResurrection
