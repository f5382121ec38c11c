SPECIFICATION Spec
CONSTANTS
    Indices = {0, 1}
    Ids = {"a", "b"}
    Fragments <- CallParts
    MaxPieces = 3
INVARIANTS
    AggregateAgrees
    JsonAgrees
CHECK_DEADLOCK FALSE
