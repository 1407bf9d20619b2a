SPECIFICATION FairSpec
CONSTANTS
    Handlers = {h1, h2}
    NoHandler = NoHandler
CHECK_DEADLOCK FALSE
INVARIANTS
    ClientEndsAfterItsLinks
PROPERTY
    DeathSeenBySleeper
