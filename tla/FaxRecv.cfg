SPECIFICATION Spec
CONSTANTS
    Plcis = {1, 2}
    Ncnt = 0
    Daemon = TRUE
    Window = 1
    MaxCalls = 2
    MaxBlocks = 2
    MaxReboots = 0
    FilesFail = FALSE
INVARIANTS
    CallsAlive
    NothingStray
    FilesInOrder
