SPECIFICATION Spec
CONSTANTS
    Dev = {d1}
    Compatible = {}
    App = {}
    DeviceThread = deviceThread
    InputThread = inputThread
    NoThread = noThread
    DeviceOps = {"register_add", "register_del"}
    InputOps = {}
    AppOps = {}
    MaxNodes = 3
    MaxCalls = 2
CHECK_DEADLOCK FALSE
PROPERTIES
    UnplugUnregisters
