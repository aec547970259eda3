SPECIFICATION FairSpec
CONSTANTS
    Plcis = {1}
    Ncnt = 2
    Daemon = TRUE
    Window = 1
    MaxCalls = 3
    MaxBlocks = 2
    MaxReboots = 0
    FilesFail = FALSE
INVARIANTS
    AcceptsRight
PROPERTIES
    Answered
    Acknowledged
    Freed
