SPECIFICATION FairSpec
CONSTANTS
    Base = 4
    DATAB3 = 1
    Msgs <- MCMsgs
    MaxFrames = 2
    PeerMayDie = TRUE
INVARIANTS
    InOrder
    FrameSync
    BuffersFit
    IInv
PROPERTIES
    QueueSpec
    AllDelivered
