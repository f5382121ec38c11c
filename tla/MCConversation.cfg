SPECIFICATION Spec
CONSTANTS
    Identifiers <- MCIdentifiers
    Fitting <- MCFitting
    Candidate <- MCCandidate
    Tools <- MCTools
    Asks <- MCAsks
    Results <- MCResults
    UserShows <- MCUserShows
    CallNames <- MCCallNames
    Sessions <- MCSessions
    Notes <- MCNotes
    Imports <- MCImports
INVARIANTS
    RefusedForCause
    HistoryRead
    ItemsRoundTrip
    CallsPaired
    ToolGroupsWhole
    SidecarsNamed
    LastChangeDecides
CHECK_DEADLOCK FALSE
