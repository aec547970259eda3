SPECIFICATION FairSpec
CONSTANTS
    MaxBlocks = 3
    MayBreak = TRUE
INVARIANTS
    NoneLost
PROPERTIES
    TransferSpec
    TakenDown
CHECK_DEADLOCK FALSE
