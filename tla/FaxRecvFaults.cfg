SPECIFICATION Spec
CONSTANTS
    Plcis = {1}
    Ncnt = 0
    Daemon = TRUE
    Window = 1
    MaxCalls = 3
    MaxBlocks = 2
    MaxReboots = 1
    FilesFail = TRUE
INVARIANTS
    FindsCall
    AckedStored
    PollsOwnSocket
CHECK_DEADLOCK FALSE
