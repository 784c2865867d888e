\* Three jobs on one permit, two clients, one cancel request, a recording of
\* one action, under fairness of the event loop.
CONSTANTS
    Job = {j1, j2, j3}
    Client = {c1, c2}
    Limit = 1
    MaxDepth = 1
    NActions = 1
    MaxCancels = 1
SPECIFICATION FairSpec
INVARIANTS
    PermitsConserved
    NoLostWakeup
    DepthBound
    OutcomeConsistent
PROPERTIES
    ImplementsJobLife
    QuietAfterClose
    EveryJobEnds
    CloseCompletes
CHECK_DEADLOCK FALSE
