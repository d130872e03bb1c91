SPECIFICATION FairSpec
CONSTANTS
    Agents = {a1, a2}
    Crawlers = {c1, c2}
    l1 = l1
    Listings = {l1}
    Fields = {f1, f2}
    Slugs = {favorites, windows, yards}
    Favorites = favorites
    Menus <- MCMenus
    Batch <- MCBatch
    Transports = {"mcp", "rest"}
    MaxClock = 5
    MaxVerdicts = 2
    MaxWrites = 3
    MaxLists = 3
    MaxResets = 1
INVARIANTS OnlyInFlightBurned FreshRubricSawAll ProfileKeepsFields BatchRecordedOnce
PROPERTIES AddedUnderItsName ResetErases EveryCallEnds
CHECK_DEADLOCK FALSE
