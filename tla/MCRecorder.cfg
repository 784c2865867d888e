\* Four envelopes through a queue of two in batches of two, one navigation.
CONSTANTS
    QueueSize = 2
    BatchSize = 2
    MaxCaptures = 4
    MaxNavs = 1
SPECIFICATION FairSpec
INVARIANTS
    LogInOrder
    LossBounded
    LogRegistered
PROPERTIES
    FrozenAfterStop
    StopCompletes
CHECK_DEADLOCK FALSE
