SPECIFICATION MCSpec
CONSTANTS
    e1 = e1
    e2 = e2
    e3 = e3
    Entries = {e1, e2, e3}
    Large = {e1}
    MaxPending = 2
    MaxFailures = 3
    NoEntry = NoEntry
    MaxRestarts = 2
    MaxTerms = 2
INVARIANTS
    EntriesAccounted
    DashboardBounded
    RouterSpared
PROPERTIES
    ImplementsSink
    ImplementsFairSink
    RouterExitEndsContainer
    StopsWhenTold
    DashboardComesBack
CHECK_DEADLOCK FALSE
