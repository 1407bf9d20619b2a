SPECIFICATION FairSpec
CONSTANTS
    PortObjects = {p1, p2, p3}
    NoPort = NoPort
CHECK_DEADLOCK FALSE
INVARIANTS
    NoOrphanedOpenPort
    OpenNeverMissed
    CallerNotAbandoned
    ConfirmedOpenIsOpen
PROPERTIES
    ClaimsOneAtATime
    RxStops
    OpenPortIsServed
    HandshakeReturns
    ClosedPeerEndsLink
