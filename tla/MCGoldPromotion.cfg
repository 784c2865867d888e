\* Three jobs, two tables, one expiry and one failure.
CONSTANTS
    Job = {j1, j2, j3}
    Table = {t1, t2}
    None = None
    MaxVersion = 1
    MaxExpiries = 1
    MaxAborts = 1
SPECIFICATION FairSpec
INVARIANTS
    OverlapBounded
PROPERTIES
    GoldForward
    LockComesFree
CHECK_DEADLOCK FALSE
