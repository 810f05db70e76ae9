SPECIFICATION Spec
CONSTANTS
    Dev = {d1, x1}
    Compatible = {x1}
    App = {a1}
    DeviceThread = deviceThread
    InputThread = inputThread
    NoThread = noThread
    DeviceOps = {"register_del", "effect"}
    InputOps = {"query", "reenumerate"}
    AppOps = {"register_add"}
    MaxNodes = 4
    MaxCalls = 3
CHECK_DEADLOCK FALSE
INVARIANTS
    TypeOK
    Partitioned
    EntryLive
    RegLive
    OnlyCallsCross
PROPERTIES
    ReportedOnce
    InputWalksAlone
