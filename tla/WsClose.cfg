SPECIFICATION FairSpec
CONSTANTS
    FrameMenu <- MCFewFrames
    Misreadings <- MCMisreadings
    Answers <- MCAnswers
    Lengths = {0, 2, 3}
    MaxFrameBytes = 2
    ShortLength = 1
    KeyBytes = 3
    MaxFrames = 2
    MaxWrites = 1
    MaxSessions = 2
INVARIANTS
    SentIntact
PROPERTIES
    CloseCompletes
CHECK_DEADLOCK FALSE
