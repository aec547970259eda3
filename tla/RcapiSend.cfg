SPECIFICATION FairSpec
CONSTANTS
    Base = 4
    DATAB3 = 1
    Msgs <- MCMsgs
    MaxPuts = 3
    MayBreak = TRUE
INVARIANTS
    InOnePiece
    ServerInStep
PROPERTIES
    NeverSentTwice
    AllTaken
CHECK_DEADLOCK FALSE
