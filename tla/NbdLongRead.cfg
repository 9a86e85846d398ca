SPECIFICATION Spec
CONSTANTS
    FileCells = 4
    MaxCells = 4
    ReadCells = 2
    Wrap = 12
    RequestMenu <- MCLongRead
    FlagMenu = {0}
    OptionMenu <- MCPlainOptions
    MaxRequests = 1
    MaxOptions = 2
    MaxSessions = 2
    IOFaults = FALSE
    TidyFrames = FALSE
INVARIANTS
    ReadRepliesAreTrue
CHECK_DEADLOCK FALSE
