SPECIFICATION FairSpec
CONSTANTS
    Dev = {d1, d2}
    Owner = owner
    Loop = loop
    Answers = {"id", "failed", "null"}
    Ops = {"register_add", "register_del", "reenumerate", "stop"}
    Faults = TRUE
    MaxNodes = 3
    MaxStarts = 2
    MaxCalls = 2
CHECK_DEADLOCK FALSE
INVARIANTS
    TypeOK
    LoopWalksLive
    Quiet
    FreedIsReported
    ListSettles
PROPERTIES
    InputKnown
    HandshakeReturns
