SPECIFICATION FairSpec
CONSTANTS
    App = {a1}
    DeviceThread = deviceThread
    InputThread = inputThread
    NoThread = noThread
    Device = {d1}
    Slots = 1
    Ops = {"register_add", "register_del", "query", "effect_set",
           "effect_del", "write", "reenumerate"}
    MaxCalls = 4
CHECK_DEADLOCK FALSE
INVARIANTS
    TypeOK
    LockedForAReason
PROPERTIES
    RelistFrozen
    CallsReturn
    UnplugHandled
