\* Two passes with the audit log, and a re-classification.
CONSTANTS
    NoLabel = NoLabel
    Nobody = Nobody
    Passes = {p1, p2}
    Classifiers = {c1}
    NActions = 2
    Intents = {login, search}
    Guess = login
    Filters <- MCFilters
    Modes <- MCModes
    Audited = {p1, p2}
    MaxFailures = 1
SPECIFICATION Spec
SYMMETRY Symmetry
INVARIANTS
    NoDecisionLost
    AuditCovers
CHECK_DEADLOCK FALSE
