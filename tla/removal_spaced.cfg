SPECIFICATION Spec
CONSTANTS
    Node = {n1, n2, n3}
    App = {a1}
    Caller = {a1, deviceThread}
    DeviceThread = deviceThread
    InputThread = inputThread
    NoThread = noThread
    Pipe = pipe
    Spaced = TRUE
    Relists = TRUE
    EpollFails = TRUE
    Failures = TRUE
CHECK_DEADLOCK FALSE
INVARIANTS
    TypeOK
    AckHasRemoval
    Accounted
    Findable
PROPERTIES
    Reclaims
SYMMETRY NodeSymmetry
