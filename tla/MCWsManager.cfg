\* Three connections on two runs, under fairness of the event loop: some share a
\* channel while others wait for the lock, open another one or tear one down.
CONSTANTS
    Conn = {c1, c2, c3}
    Run = {r1, r2}
    None = None
    Closer = Closer
SPECIFICATION FairSpec
INVARIANTS
    RefCountExact
    OneChannelPerRun
    CloseReachesAll
    NothingLeaks
PROPERTIES
    CloseDrains
CHECK_DEADLOCK FALSE
