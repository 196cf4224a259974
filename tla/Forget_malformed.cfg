CONSTANTS
    Tasks = {t1}
    Drains = {f1}
    ConcurrentSetting = 1
    OutstandingSetting = 1
    Past = Past
    NoOne = NoOne
    Stored = {"facts", "archive"}
    Broken = {}
    Malformed = {"facts", "archive"}
    Stuck = {}
    Pressure = FALSE
SPECIFICATION ForgetSpec
PROPERTIES AnswerNamesTheRest
CHECK_DEADLOCK FALSE
