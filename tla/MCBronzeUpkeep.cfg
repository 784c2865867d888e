\* Two compactions and a retention pass, two lines, one expiry, one fault.
CONSTANTS
    Compactors = {c1, c2}
    Pruners = {d1}
    MaxLogged = 2
    MaxAges = 1
    MaxFaults = 1
SPECIFICATION FairUpkeepSpec
PROPERTIES
    OnlyExpiredGo
    EventuallyCompacted
    ParquetExpires
CHECK_DEADLOCK FALSE
