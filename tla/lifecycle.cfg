SPECIFICATION Spec
CONSTANTS
    Backends = {"evdev", "win"}
    App = app
    Device = device
    Input = input
    Again = {"evdev"}
    MaxStarts = 2
CHECK_DEADLOCK FALSE
INVARIANTS
    TypeOK
    FreedUnused
    
    DeafAfterStop
    StoppedIsOver
PROPERTIES
    EndedByOthers
