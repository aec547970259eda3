SPECIFICATION FairSpec
CONSTANTS
    Plcis = {1, 2}
    MaxCalls = 2
    Configs <- MCConfigs
INVARIANTS WindowKept Announced NoneLeftOut HeaderRight
PROPERTIES RecordingStarts
CHECK_DEADLOCK FALSE
