SPECIFICATION Spec
CONSTANTS
    ta = ta
    tb = tb
    p1 = p1
    p2 = p2
    Empty = Empty
    Callers <- TwoCallers
    ValidIds = {16}
    InvalidIds = {64}
    Payloads <- TwoPayloads
    MayCall <- SharedId
INVARIANTS
    RegisteredMatchesBus
