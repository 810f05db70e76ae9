SPECIFICATION FairSpec
CONSTANTS
    App = {a1}
    DeviceThread = deviceThread
    InputThread = inputThread
    NoThread = noThread
    Device = {d1}
    Slots = 1
    Ops = {"register_add", "register_del", "effect_set"}
    MaxCalls = 3
CHECK_DEADLOCK FALSE
PROPERTIES
    UnregisteringReturns
