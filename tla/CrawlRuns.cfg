\* One run at a time.
SPECIFICATION RunsSpec
CONSTANTS
    Listings = {l1}
    Crawlers = {c1}
    StandingScopes = {{a}}
    OnceScopes = {}
    RecurringScopes = {}
    PageStatuses = {"active", "in_contract", "delisted"}
    MissingRunsToDelist = 2
    BaselineWindow = 3
    BaselineScan = 5
    BaselineAcceptRuns = 2
    StablePercent = 70
    SuspectPercent = 30
    MinBaselineRuns = 2
    Worlds <- MCWorlds
INVARIANTS
    OutageJudgesNothing
    LevelIsAccepted
PROPERTY UnreadRowKeepsDetailStatus
