SPECIFICATION NetSpec
CONSTANTS
    ta = ta
    tb = tb
    p1 = p1
    p2 = p2
    Empty = Empty
    Callers <- TwoCallers
    ValidIds = {16, 17}
    InvalidIds = {64}
    Payloads = {p1, p2}
    MayCall <- OwnIds
    Schedules <- Tables
INVARIANTS
    NetTypeOK
    PartitionedAgreement
    AtMostOneLateHeader
PROPERTIES
    StopEndsRun
    
    RegisteredIsHeard
