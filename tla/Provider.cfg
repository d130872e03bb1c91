SPECIFICATION FairSpec
CONSTANTS
    Ids <- MCIds
    Rank <- MCRank
    Prices <- MCPrices
    Unpriced = {"l1"}
    Mistyped = {"l3"}
    Anonymous = {"l2"}
    PerPage = 1
    ResultCap = 2
    MaxPages = 3
    MaxMoves = 1
    Hosts = {"p1", "p2"}
    ProxyLists <- MCProxyLists
    MinGap = 2
    BenchFor = 3
    RefreshEvery = 4
    Settings <- MCSettings
    Starts <- MCStarts
    Delay = 1
    Timeout = 3
    MaxAttempts = 2
    RetryBackoff = 1
    MaxFaults = 1
    MaxBands = 3
INVARIANTS
    CompleteCovers
    AbortHasCause
PROPERTIES
    BansRespected
    GapKept
    SearchEnds
