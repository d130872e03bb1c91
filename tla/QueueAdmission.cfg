\* Requests racing the cap and the dedupe; no promotions.
SPECIFICATION Spec
CONSTANTS
    Scopes = {s1, s2, s3, s4}
    Drains = {d1}
    Clients = {c1, c2}
    MaxTargets = 4
    MaxPendingRequests = 1
    MaxFaults = 1
    Calls = {"once"}
    Spaced = FALSE
    DrainsFitStaleWindow = TRUE
SYMMETRY Symmetry
INVARIANTS
    QueueBounded
