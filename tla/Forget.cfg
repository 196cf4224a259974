CONSTANTS
    Tasks = {t1, t2}
    Drains = {f1}
    ConcurrentSetting = 1
    OutstandingSetting = 2
    Past = Past
    NoOne = NoOne
    Stored = {"facts", "archive", "episodic", "summary", "persona"}
    Broken = {"facts", "archive"}
    Malformed = {"facts", "archive"}
    Stuck = {"summary", "persona"}
    Pressure = TRUE
SPECIFICATION ForgetSpec
SYMMETRY Symmetry
INVARIANTS ForgottenStaysForgotten ForgetFinishes NobodyWaitsForAll
CHECK_DEADLOCK FALSE
