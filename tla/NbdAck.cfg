SPECIFICATION Spec
CONSTANTS
    FileCells = 4
    MaxCells = 4
    ReadCells = 2
    Wrap = 12
    RequestMenu <- MCFewRequests
    FlagMenu = {0}
    OptionMenu <- MCPlainOptions
    MaxRequests = 1
    MaxOptions = 2
    MaxSessions = 2
    IOFaults = TRUE
    TidyFrames = FALSE
INVARIANTS
    AckMeansCompleted
CHECK_DEADLOCK FALSE
