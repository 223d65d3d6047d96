SPECIFICATION Spec
CONSTANTS
    Films = {f1, f2}
    Clips = {c1, c2}
    NoFile = NoFile
    StopCommand = StopCommand
    MaxEvents = 3
INVARIANTS
    TypeOK
    NothingShownAfterStop
    PauseShown
PROPERTIES
    OnlyEndedIsStopped
    EndedReturnsToBrowser
