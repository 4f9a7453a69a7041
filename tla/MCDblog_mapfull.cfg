CONSTANTS
    Byte <- MCZero
    PadByte <- MCPads
    MacLen = 1
    NoProc = NoProc
    NoKey = NoKey
    MaxTime = 2
    Collectors = {c1}
    Loaders = {l1}
    Removers = {}
    InitMap = 1
    MapLimit = 4
    Faults = {"begin", "commit", "info", "size", "reopen", "dbi", "crash"}
    BatchMax = 2
SPECIFICATION FairSpec
INVARIANTS
    TypeOK
    LiveTransaction
    Isolation
    RecordsHaveProbes
PROPERTIES
    CommitsOwnRecords
    StoredUnlessRecovered
    WholeUnlessRecovered
    LockIsReleased

