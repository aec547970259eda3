SPECIFICATION FairSpec
CONSTANTS
    Base = 4
    DATAB3 = 1
    Msgs <- MCMsgs
    MaxFrames = 1
    PeerMayDie = TRUE
PROPERTIES
    CallReturns
