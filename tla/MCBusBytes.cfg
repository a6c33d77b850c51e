SPECIFICATION Spec
CONSTANTS
    ma = ma
    mb = mb
    d1 = d1
    short = short
    long = long
    Masters <- OneMaster
    Drainers = {}
    ValidIds = {60}
    InvalidIds = {}
    DiagIds = {60}
    Payloads <- TwoPayloads
    Size <- PayloadSize
    Options <- OldestOptions
    Schedules = {}
    SelfClosers = {}
    MaxSubs = 1
    MaxHeaders = 2
    MaxErrors = 0
INVARIANTS
    BytesDeliveredExact
