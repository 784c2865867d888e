\* One audited pass and nobody else.
CONSTANTS
    NoLabel = NoLabel
    Nobody = Nobody
    Passes = {p1}
    Classifiers = {}
    NActions = 2
    Intents = {login, search}
    Guess = login
    Filters <- MCFilters
    Modes <- MCModes
    Audited = {p1}
    MaxFailures = 0
SPECIFICATION Spec
INVARIANTS
    PassSucceedsAlone
CHECK_DEADLOCK FALSE
