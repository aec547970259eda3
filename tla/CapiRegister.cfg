SPECIFICATION FairSpec
CONSTANTS
    Fds <- MCFds
    Challenges = {c1, c2}
    MaxCalls = 3
    MayClose = TRUE
INVARIANTS
    Registered
    Descriptors
    FailureCoded
PROPERTIES
    CallReturns
CHECK_DEADLOCK FALSE
