SPECIFICATION ParamSpec
CONSTANT Par <- MCPar
CONSTANT Type <- MCType
CONSTANT PinDefault <- MCPinDefault
CONSTANT Text <- MCText
CONSTANT NameLength <- MCNameLength
CONSTANT PortLength <- MCPortLength
CONSTANT Room <- MCRoom
CONSTANT Digits = 3
CONSTANT Dword = 65536
CONSTANT MaxItems = 2
INVARIANT NoThirdValue
INVARIANT ListReplays
PROPERTY SavedAsAsked
