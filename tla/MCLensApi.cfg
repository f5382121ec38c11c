SPECIFICATION Spec
CONSTANTS
    Models <- MCModels
    Entries <- MCEntries
    FALLBACK <- MCFallback
    OnePassThreshold = 3
    Bucket = 2
    PageSize = 2
    Ids = {1, 2, 3}
    Finals <- MCFinals
    Limit = 3
    MaxSeen = 2
    MaxClock = 4
    Rate = 2
INVARIANTS
    OverviewsAgree
    CostsAddUp
PROPERTIES
    CaughtUp
CHECK_DEADLOCK FALSE
