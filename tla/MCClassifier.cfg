\* Four tasks, two questions; two permits, two attempts, two days.
CONSTANTS
    t1 = t1
    t2 = t2
    t3 = t3
    t4 = t4
    Abstain = Abstain
    Tasks = {t1, t2, t3, t4}
    Key <- MCKey
    Rule <- MCRule
    Threshold = 80
    Answers = {60}
    MaxConcurrency = 2
    MaxAttempts = 2
    Cap = 1
    Costs = {1}
    MaxCost = 1
    CacheSize = 1
    MaxDays = 2
    MaxFailures = 1
SPECIFICATION FairSpec
INVARIANTS
    BudgetBound
    VerdictSound
PROPERTIES
    BatchCompletes
CHECK_DEADLOCK FALSE
