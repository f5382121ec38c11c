SPECIFICATION Spec
CONSTANTS
    LastSlot = 1
    LastPart = 1
    MaxPieces = 2
INVARIANTS
    Fidelity
    ProgressiveAgrees
    ToolsExecutable
    EndsTruthfully
PROPERTIES
    ImplementsWire
CHECK_DEADLOCK FALSE
