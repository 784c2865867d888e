\* Four events, a list of three, a window and a queue of two.
CONSTANTS
    MaxEvents = 4
    ListCap = 3
    QueueCap = 2
    Window = 2
    MaxFaults = 1
SPECIFICATION FairSpec
INVARIANTS
    RepeatsApart
    GapBounded
PROPERTIES
    WireDrains
CHECK_DEADLOCK FALSE
