SPECIFICATION FairSpec
CONSTANTS
    Node = {n1, n2}
    App = {a1}
    Caller = {a1}
    DeviceThread = deviceThread
    InputThread = inputThread
    NoThread = noThread
    Pipe = pipe
    Spaced = FALSE
    Relists = TRUE
    EpollFails = FALSE
    Failures = TRUE
CHECK_DEADLOCK FALSE
PROPERTIES
    StopReturns
    RemovalCompletes
