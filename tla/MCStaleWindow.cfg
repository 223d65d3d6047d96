SPECIFICATION SwarmSpec
CONSTANTS
    Mib = 1
    MaxLimitMib = 8
    TotalPieces = 3
    PieceLength = 1
    FileOffset = 1
    FileSize = 2
    InitialLimit = 2
    Limits = {1}
    ReadSizes = {1}
    MaxChanges = 1
    MaxBadPieces = 0
PROPERTY
    ReadReturns
