SPECIFICATION Spec
CONSTANTS
    MaxEventBytes = 6
    MaxEventLines = 2
    MaxBytes = 7
INVARIANTS
    ChunkingIrrelevant
    Prompt
CHECK_DEADLOCK FALSE
