SPECIFICATION BuildSpec
CONSTANTS
    FileCells = 4
    MaxCells = 4
    ReadCells = 2
    Wrap = 12
    RequestMenu <- MCFewRequests
    FlagMenu = {0, 1}
    OptionMenu <- MCOptions
    MaxRequests = 2
    MaxOptions = 2
    MaxSessions = 2
    IOFaults = TRUE
    TidyFrames = FALSE
INVARIANTS
    SamePhase
    NoErrorMeansStored
CHECK_DEADLOCK FALSE
