\* One session and other writers; every sequence of up to four of eleven events.
CONSTANTS
    s1 = s1
    Other = Other
    NoSession = NoSession
    NoSelector = NoSelector
    Sessions = {s1}
    Events <- MCEvents
    MaxEvents <- MCMaxEvents
    MaxBatch = 1
    MaxFailures = 1
    BurstGap = 2
    FollowupWindow = 20
SPECIFICATION IngestSpec
INVARIANTS
    FormsReplayAlike
    OnlyNoiseGoes
    SavedTogether
CHECK_DEADLOCK FALSE
