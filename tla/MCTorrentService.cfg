SPECIFICATION Spec
CONSTANTS
    MaxLoads = 2
    MaxLimits = 1
    Kinds = {"file", "magnet", "local", "other"}
INVARIANTS
    TypeOK
    SnapshotConsistent
    SnapshotOfSource
    NoOrphanTorrent
    StreamOfGeneration
    StaleStreamEnds
PROPERTY
    LoadAnswered
\* the inputs of an instance are bounded
CHECK_DEADLOCK FALSE
