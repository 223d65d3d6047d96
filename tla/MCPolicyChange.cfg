SPECIFICATION Spec
CONSTANTS
    Mib = 2
    MaxLimitMib = 8
    TotalPieces = 3
    PieceLength = 2
    FileOffset = 1
    FileSize = 3
    InitialLimit = 1
    Limits = {2}
    ReadSizes = {2}
    MaxChanges = 1
    MaxBadPieces = 1
INVARIANT
    WindowsAgree
PROPERTIES
    ReadsAreVerified
    StopEndsRead
