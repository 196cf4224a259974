CONSTANTS
    Claims = {c1}
    Tails = {t1, t2}
    AdminDedup = AdminDedup
    NoOne = NoOne
    Budget = 1
    MaxFacts = 2
    MaxClock = 1
    Extraction = {TRUE, FALSE}
    MayDamage = {}
SPECIFICATION LiveSpec
PROPERTIES TailsSettle ActsAsMemory PinsStick
