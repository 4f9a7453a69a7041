CONSTANTS
    Byte <- MCBytes
    PadByte <- MCPads
    MacLen = 1
    NoProc = NoProc
    NoKey = NoKey
    MaxTime = 3
    Collectors = {c1, c2}
    Loaders = {}
    Removers = {r1}
    InitMap = 8
    MapLimit = 8
    Faults = {"begin", "crash"}
    BatchMax = 0
SPECIFICATION Spec
INVARIANTS
    ProbeIsNewest
PROPERTIES
    ProbeNeverRegresses
    ImplementsProbeStore
