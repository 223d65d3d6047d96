SPECIFICATION StatusSpec
CONSTANTS
    Mib = 1
    MaxLimitMib = 8
    TotalPieces = 2
    PieceLength = 1
    FileOffset = 0
    FileSize = 2
    InitialLimit = 1
    Limits = {2}
    ReadSizes = {1}
    MaxChanges = 0
    MaxBadPieces = 0
    Timeout = 3
    Advertised = {0, 1}
INVARIANT
    StalledIsShown
