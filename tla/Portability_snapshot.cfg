CONSTANTS
    Convs = {a, b}
    TestConvs = {b}
    Facts = {f, g}
    Known = {f}
    Exchanges = {x}
    Chapters = {h}
    Tails = {t}
    Few = 1
    Flickers = {"facts", "index", "summary"}
    MaxOps = 2
    MayTear = FALSE
SPECIFICATION Spec
INVARIANT SnapshotHoldsIt
CHECK_DEADLOCK FALSE
