SPECIFICATION Spec
CONSTANTS
    x1 = x1
    x2 = x2
    Exchanges = {x1, x2}
    Entries <- MCEntries
    MaxPending = 2
INVARIANTS
    OneTerminal
    AuditTrail
PROPERTIES
    NoLateAppend
    ShutdownCompletes
CHECK_DEADLOCK FALSE
