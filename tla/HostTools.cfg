SPECIFICATION ToolsSpec
CONSTANTS
    Sizes <- MCSizes
    MaxMessages = 2
    MaxStops = 2
    MaxCommands = 6
    TxSizes = {0, 8, 40, 80, 200}
    TxLoops = {0, 1, 2}
    DataLens = {0, 3, 4, 6}
    DataBuffer = 2
    RxTimeout = 3
    Batch = 2
    BatchesEnd = 3
    PacketLens = {0, 1, 3}
    MaxFaults = 2
    MaxPackets = 3
    Drives = {1, 2}
    DriveKinds <- MCDriveKinds
    LastAddress = 4
    RangeTexts <- MCRangeTexts
    MaxChanges = 3
INVARIANTS
    TypeOK
    TransferTrue
    ProgramUndisturbed
    VdmReportsTrue
    WindowTrue
CHECK_DEADLOCK FALSE
