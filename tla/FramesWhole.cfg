SPECIFICATION FairSpec
CONSTANTS
    Senders = {rx, tx}
    Packages = {"confirm", "data", "long"}
    PayloadLen <- Lengths
    HeaderLen = 2
    MaxPayload = 2
    Capacity = 2
    MaxFrames = 3
CHECK_DEADLOCK FALSE
INVARIANTS
    BufferNotOverrun
    OneStalePackage
PROPERTIES
    PackagesInOrder
    PackagesDelivered
    ReceiverStops
