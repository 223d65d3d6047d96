SPECIFICATION Spec
CONSTANTS
    Films = {}
    Clips = {c1, c2}
    NoFile = NoFile
    StopCommand = StopCommand
    MaxEvents = 2
INVARIANT
    PauseAlwaysShown
