CONSTANTS
    Convs = {a, b}
    TestConvs = {b}
    Facts = {f, g}
    Known = {f}
    Exchanges = {x}
    Chapters = {}
    Tails = {t}
    Few = 1
    Flickers = {"facts", "index"}
    MaxOps = 2
    MayTear = FALSE
SPECIFICATION Spec
PROPERTIES NothingIsOverwritten
CHECK_DEADLOCK FALSE
