SPECIFICATION FairSpec
CONSTANTS
    PortObjects = {p1, p2}
    NoPort = NoPort
CHECK_DEADLOCK FALSE
PROPERTY
    AliveWhileOperational
