SPECIFICATION FairSpec
CONSTANTS
    l1 = l1
    ghost = ghost
    f1 = f1
    favorites = favorites
    yards = yards
    s1 = s1
    nowhere = nowhere
    Listings = {l1}
    Ghosts = {ghost}
    Photographed = {l1}
    Fields = {f1}
    Slugs = {favorites, yards}
    Favorites = favorites
    Scopes = {s1}
    MaxTargets = 2
    MaxPendingRequests = 1
    MaxVerdictBatch = 3
    Menus <- MCMenus
    Requests <- MCRequests
    PageVisits <- MCVisits
    MaxVerdicts = 3
    MaxRubrics = 1
    MaxFaults = 2
    MaxRotations = 1
    MaxProbes = 2
    MaxLoginFailures = 2
INVARIANTS RefusalWritesNothing OnlyFaultsAre500 SafeRetry TransportsAgree GuessesBounded
PROPERTIES EffectsAsAnnotated SessionEnds
CHECK_DEADLOCK FALSE
