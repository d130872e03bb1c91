\* Claims may turn stale under a live drain: two drains, every management call.
SPECIFICATION Spec
CONSTANTS
    Scopes = {s1}
    Drains = {d1, d2}
    Clients = {c1}
    MaxTargets = 2
    MaxPendingRequests = 2
    MaxFaults = 2
    Calls = {"once", "standing", "pause", "resume", "promote", "delete", "reset", "seed"}
    Spaced = TRUE
    DrainsFitStaleWindow = FALSE
SYMMETRY Symmetry
INVARIANTS
    PendingOnceUnique
    OnceExclusive
