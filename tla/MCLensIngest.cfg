SPECIFICATION Spec
CONSTANTS
    x1 = x1
    NoEntry = NoEntry
    Exchanges = {x1}
    Entries <- MCEntries
    Days = {1, 2}
    Batch = 2
    MaxFaults = 1
INVARIANTS
    NoStrandedBodies
    Converges
    NothingSkipped
PROPERTIES
    ExpiredGone
CHECK_DEADLOCK FALSE
