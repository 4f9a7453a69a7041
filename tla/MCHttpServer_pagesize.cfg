CONSTANTS
    Byte <- MCBytes
    PadByte <- MCZero
    MacLen = 1
    MaxTime = 2
    Junk <- MCZero
    Text <- MCText
    TextTime <- MCTextTime
    MaxRows = 2
    MaxMacs = 1
    Thread = {"first", "second"}
    Requests <- MCRequestsOf
    SizeMax = 8
    DefaultCount = 1
SPECIFICATION Spec
INVARIANTS
    PageIsBounded
