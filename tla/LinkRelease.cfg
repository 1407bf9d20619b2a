SPECIFICATION Spec
CONSTANTS
    PortObjects = {p1, p2}
    NoPort = NoPort
CHECK_DEADLOCK FALSE
INVARIANT
    PortNotUsedAfterRelease
