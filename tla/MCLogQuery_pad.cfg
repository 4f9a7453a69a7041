CONSTANTS
    Byte <- MCBytes
    PadByte <- MCPads
    MacLen = 2
    MaxTime = 2
    Junk <- MCJunk
    Text = {"object", "{}"}
    TextTime <- MCTextTime
    MaxRows = 2
    MaxMacs = 2
SPECIFICATION Spec
INVARIANTS
    FullReadMissesNothing
