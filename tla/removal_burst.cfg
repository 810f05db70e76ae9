SPECIFICATION Spec
CONSTANTS
    Node = {n1, n2}
    App = {a1}
    Caller = {a1, deviceThread}
    DeviceThread = deviceThread
    InputThread = inputThread
    NoThread = noThread
    Pipe = pipe
    Spaced = FALSE
    Relists = FALSE
    EpollFails = FALSE
    Failures = FALSE
CHECK_DEADLOCK FALSE
PROPERTIES
    FlushBeforeFree
