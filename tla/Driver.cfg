SPECIFICATION Spec
CONSTANT b1 = b1
CONSTANT b2 = b2
CONSTANT p1 = p1
CONSTANT foreign = foreign
CONSTANT OtherInf = {foreign}
CONSTANT Bus <- MCBus
CONSTANT PortDev <- MCPortDev
CONSTANT BusOf <- MCBusOf
CONSTANT ClassOf <- MCClassOf
CONSTANT Match <- MCMatch
CONSTANT MaxFaults = 1
INVARIANT DevicesKeepDriver
PROPERTY OffStaysOff
PROPERTY ActiveRestored
PROPERTY LoadedDriverStays
PROPERTY SilentCommandsEnd
