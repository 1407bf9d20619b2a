SPECIFICATION FairSpec
CONSTANTS
    Fds = {3, 4}
    ReadTimeouts <- ReadTimeoutsMC
    WaitTimeouts = {50, 300}
    MaxOpens = 2
    MaxBytes = 1
CHECK_DEADLOCK FALSE
INVARIANTS
    FirstSessionBlocks
    WaitsInPoll
PROPERTY
    CloseReleasesReader
