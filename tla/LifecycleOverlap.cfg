\* Two runs at a time, of three standing scopes and a one-off across them.
SPECIFICATION FairSpec
CONSTANTS
    Listings = {l1}
    Crawlers = {c1, c2}
    StandingScopes = {{a}, {a, b}, {b, c}}
    OnceScopes = {{a, d}}
    RecurringScopes = {{a, b}}
    PageStatuses = {"active"}
    MissingRunsToDelist = 2
PROPERTIES
    OnlyTrackersDelist
    GoneIsDelisted
