SPECIFICATION Spec
CONSTANTS
    FileCells = 4
    MaxCells = 4
    ReadCells = 2
    Wrap = 12
    RequestMenu <- MCEngineRequests
    FlagMenu = {0}
    OptionMenu <- MCEngineOptions
    MaxRequests = 2
    MaxOptions = 2
    MaxSessions = 2
    IOFaults = TRUE
    TidyFrames = FALSE
INVARIANTS
    TypeOK
    PayloadInSync
    RepliesInOrder
    AckedWriteStored
    NoStrayWrite
CHECK_DEADLOCK FALSE
