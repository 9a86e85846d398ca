SPECIFICATION Spec
CONSTANTS
    FrameMenu <- MCFrames
    Misreadings <- MCMisreadings
    Answers <- MCAnswers
    Lengths = {2}
    MaxFrameBytes = 2
    ShortLength = 1
    KeyBytes = 3
    MaxFrames = 3
    MaxWrites = 0
    MaxSessions = 2
INVARIANTS
    TypeOK
    MessagesIntact
    CloseHandshake
    SignalsTrue
CHECK_DEADLOCK FALSE
