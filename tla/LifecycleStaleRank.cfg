\* Two runs overlap.
SPECIFICATION Spec
CONSTANTS
    Listings = {l1}
    Crawlers = {c1, c2}
    StandingScopes = {{a}}
    OnceScopes = {}
    RecurringScopes = {}
    PageStatuses = {"active", "in_contract"}
    MissingRunsToDelist = 2
PROPERTY UnreadRowKeepsDetailStatus
SYMMETRY Symmetry
