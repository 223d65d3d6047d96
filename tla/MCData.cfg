SPECIFICATION DataSpec
CONSTANTS
    Mib = 6
    MaxLimitMib = 3
    Size = 5
    Block = 2
    Values = {v1, v2}
    Zero = zero
    Absent = absent
    LeastSegments = 2
    MostSegments = 4
    SegmentWidth = 1
    Limits <- TheLimits
    Budgets <- TheBudgets
    Geometries <- TheGeometries
    Offsets <- TheOffsets
    StoredFiles <- TheStoredFiles
    MaxFiles = 3
    PieceFacts <- ThePieceFacts
    Widths = {0, 1, 3, 5, 9}
    MaxRail = 6
INVARIANTS
    PolicyInForce
    WindowsAreExact
    FilesInOrder
    RangesExact
    RailShowsAll
PROPERTIES
    WindowFollowsReader
    ImplementsByteMap
