CONSTANTS
    Byte <- MCBytes
    PadByte <- MCPads
    MacLen = 1
    NoProc = NoProc
    NoKey = NoKey
    MaxTime = 2
    Collectors = {c1}
    Loaders = {l1}
    Removers = {}
    InitMap = 3
    MapLimit = 6
    Faults = {}
    BatchMax = 1
SPECIFICATION Spec
PROPERTIES
    SuccessStored
