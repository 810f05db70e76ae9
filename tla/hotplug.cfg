SPECIFICATION FairSpec
CONSTANTS
    Path = {p1, p2}
    Starter = starter
    DeviceThread = deviceThread
    Setups <- OneOrAll
    MaxEvents = 4
CHECK_DEADLOCK FALSE
INVARIANTS
    TypeOK
    UnplugFindsEntry
    NodesListed
    RetryArmed
PROPERTIES
    PluggedIsListed
