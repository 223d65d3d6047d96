SPECIFICATION SwarmSpec
CONSTANTS
    Mib = 1
    MaxLimitMib = 8
    TotalPieces = 4
    PieceLength = 1
    FileOffset = 1
    FileSize = 3
    InitialLimit = 1
    Limits = {2}
    ReadSizes = {1, 2}
    MaxChanges = 0
    MaxBadPieces = 0
INVARIANTS
    TypeOK
    ReaderIsRetained
    WindowIsWanted
PROPERTY
    ReadReturns
