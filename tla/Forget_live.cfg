CONSTANTS
    Tasks = {t1, t2}
    Drains = {f1}
    ConcurrentSetting = 1
    OutstandingSetting = 2
    Past = Past
    NoOne = NoOne
    Stored = {"facts"}
    Broken = {}
    Malformed = {}
    Stuck = {}
    Pressure = FALSE
SPECIFICATION ForgetLive
INVARIANTS GuardsAreExact
PROPERTIES ForgetAnswers NothingGoesRound
CHECK_DEADLOCK FALSE
