SPECIFICATION Spec
CONSTANTS
    FrameMenu <- MCFewFrames
    Misreadings <- MCMisreadings
    Answers <- MCAnswers
    Lengths = {1}
    MaxFrameBytes = 2
    ShortLength = 1
    KeyBytes = 16
    MaxFrames = 1
    MaxWrites = 1
    MaxSessions = 2
INVARIANTS
    EarlierConnectionAborted
CHECK_DEADLOCK FALSE
