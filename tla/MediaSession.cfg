SPECIFICATION FairSpec
CONSTANTS
    Builds <- AllBuilds
    Fds = {1, 2, 3, 4}
    MaxSockets = 2
    MaxAsked = 2
    MaxRequests = 1
INVARIANTS
    TypeOK
    ConnectedOncePerStart
    OnlyTheDeviceIsClosed
    DeviceClosed
    WritesLocked
    NeverLocked
PROPERTY
    SessionComes
CHECK_DEADLOCK FALSE
