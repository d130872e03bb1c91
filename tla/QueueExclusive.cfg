\* No drain outlives the stale window: two drains, fair scheduling, and
\* promotion and removal as the management calls.
SPECIFICATION FairSpec
CONSTANTS
    Scopes = {s1}
    Drains = {d1, d2}
    Clients = {c1}
    MaxTargets = 2
    MaxPendingRequests = 2
    MaxFaults = 1
    Calls = {"once", "standing", "promote", "delete"}
    Spaced = TRUE
    DrainsFitStaleWindow = TRUE
INVARIANTS
    ExclusiveCrawl
    CrawlerHoldsClaim
    OrphansNeedLoss
PROPERTIES
    SettledIsFinal
    KeepsLedger
    RequestSettles
    StandingCrawled
