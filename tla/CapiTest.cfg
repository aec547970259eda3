SPECIFICATION FairSpec
CONSTANTS
    MaxCalls = 2
    MaxSignals = 1
    MaxFd = 2
    Configs <- MCConfigs
INVARIANTS LimitKept PollListRight WindowKept Reachable
PROPERTIES Served
CHECK_DEADLOCK FALSE
