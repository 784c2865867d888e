\* Two promotions, three captures of any kind, one failure.
CONSTANTS
    Promoters = {p1, p2}
    MaxPage = 3
    MaxFailed = 1
SPECIFICATION SilverSpec
INVARIANTS
    SilverCovers
    SavedRowsStay
CHECK_DEADLOCK FALSE
