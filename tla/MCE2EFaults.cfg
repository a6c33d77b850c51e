SPECIFICATION Spec
CONSTANTS
    ta = ta
    tb = tb
    own = own
    foreign = foreign
    Protectors <- TwoProtectors
    ConfigOf <- Identity
    ReceiverConfig = own
    Threads <- TwoThreads
    Payloads = {"a"}
    M = 3
    Faults <- FaultKinds
    MaxFrames = 4
    MaxFaults = 2
    MaxNet = 3
INVARIANTS
    TypeOK
    AcceptedIsAuthentic
    NoSilentGap
    
CHECK_DEADLOCK FALSE
