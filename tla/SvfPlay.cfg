SPECIFICATION FairSpec
CONSTANTS
    Menu <- SmallMenu
    Deviations <- SmallDeviations
    ByteSize = 2
    XferBytes = 2
    ParaSize = 6
    LongestScan = 16
    MaxCommands = 4
INVARIANTS
    TypeOK
    PendingIntact
    ReportsTrue
    TapStable
    ChunksCover
PROPERTIES
    LoopBound
    Terminates
CHECK_DEADLOCK FALSE
