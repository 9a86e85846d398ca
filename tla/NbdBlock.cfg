SPECIFICATION FairSpec
CONSTANTS
    FileCells = 6
    MaxCells = 6
    ReadCells = 6
    Wrap = 20
    RequestMenu <- MCGoodRequests
    FlagMenu = {0}
    OptionMenu <- MCOptions
    MaxRequests = 3
    MaxOptions = 2
    MaxSessions = 1
    IOFaults = FALSE
    TidyFrames = TRUE
PROPERTIES
    IsBlockDevice
    EveryRequestAnswered
    EveryOptionAnswered
CHECK_DEADLOCK FALSE
