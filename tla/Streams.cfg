SPECIFICATION FairSpec
CONSTANTS
    InData <- MCInData
    OutData <- MCOutData
    InBuffer = 2
    OutBuffer = 2
    MaxSent = 3
CHECK_DEADLOCK FALSE
INVARIANTS
    InputInOrder
    OutputInOrder
PROPERTY
    LostPortFreesReader
