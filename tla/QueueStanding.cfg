\* One drain: every way a standing row is made except promotion.
SPECIFICATION Spec
CONSTANTS
    Scopes = {s1, s2}
    Drains = {d1}
    Clients = {c1, c2}
    MaxTargets = 2
    MaxPendingRequests = 2
    MaxFaults = 2
    Calls = {"once", "standing", "pause", "resume", "delete", "seed"}
    Spaced = TRUE
    DrainsFitStaleWindow = FALSE
SYMMETRY Symmetry
INVARIANTS
    StandingScopeUnique
PROPERTIES
    StandingSpaced
