SPECIFICATION Spec
CONSTANTS
    Path = {p1}
    Starter = starter
    DeviceThread = deviceThread
    Setups <- Unplugged
    MaxEvents = 4
CHECK_DEADLOCK FALSE
INVARIANTS
    ListedIsPlugged
