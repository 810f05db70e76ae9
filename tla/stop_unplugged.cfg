SPECIFICATION FairSpec
CONSTANTS
    Node = {n1}
    App = {a1}
    Caller = {a1}
    DeviceThread = deviceThread
    InputThread = inputThread
    NoThread = noThread
    Pipe = pipe
    Spaced = TRUE
    Relists = FALSE
    EpollFails = FALSE
    Failures = FALSE
CHECK_DEADLOCK FALSE
PROPERTIES
    StopEnds
