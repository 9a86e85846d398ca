SPECIFICATION FairSpec
CONSTANTS
    Conns = {1, 2}
    Requests <- SomeRequests
    MaxPending = 1
    MaxFields = 5
INVARIANTS
    TypeOK
    VerdictOfRequest
    EachSocketOnce
    NothingLeaks
PROPERTY
    Answered
CHECK_DEADLOCK FALSE
