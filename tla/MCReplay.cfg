\* Two actions of any kind, with and without an LLM, on a page that changes.
CONSTANTS
    NActions = 2
    MaxDepth = 1
SPECIFICATION FairSpec
INVARIANTS
    RecoveryIsVerified
    ToldAsItHappened
PROPERTIES
    RunEnds
CHECK_DEADLOCK FALSE
