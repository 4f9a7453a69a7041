CONSTANTS
    Byte <- MCBytes
    PadByte <- MCZero
    MacLen = 1
    MaxTime = 2
    Junk <- MCZero
    Text <- MCText
    TextTime <- MCTextTime
    MaxRows = 3
    MaxMacs = 2
    Requests <- MCRequests
SPECIFICATION Spec
INVARIANTS
    TypeOK
    PrintsSlice
    ReadsAllMacs
    CountIsOfEffect
    RemovalIsNamed
    InterruptIsPrompt
