SPECIFICATION Spec
CONSTANTS
    long = long
    short = short
    Mib = 4
    MaxLimitMib = 8
    Torrents <- TheTorrents
    MaxPieces = 2
    PieceCount <- ThePieceCount
    PieceLength <- ThePieceLength
    LastPieceSize <- TheLastPieceSize
    Block = 1
    NoWindow = NoWindow
    MissBound = 0
    MaxSlots = 2
    NoStorage = NoStorage
    InitialPolicy <- TheInitialPolicy
    RawPolicySet <- TheRawPolicySet
    Offsets <- TheOffsets
    AskedWindows <- TheAskedWindows
    AskedPieces <- TheAskedPieces
    AskedRanges <- TheAskedRanges
INVARIANTS
    TypeOK
    StoredHeldOrEvicted
    WriteKeptOrEvicted
    BytesAccounted
    LimitEnforced
    PoliciesAgree
    EvictedIsTheLoops
PROPERTIES
    NoOverEviction
    RetainedKept
    ImplementsPieceStore
