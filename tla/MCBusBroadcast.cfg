SPECIFICATION Spec
CONSTANTS
    ma = ma
    mb = mb
    d1 = d1
    short = short
    long = long
    Masters <- TwoMasters
    Drainers = {}
    ValidIds = {16, 60}
    InvalidIds = {}
    DiagIds = {60}
    Payloads <- TwoPayloads
    Size <- PayloadSize
    Options <- MixedOptions
    Schedules = {}
    SelfClosers = {1}
    MaxSubs = 2
    MaxHeaders = 2
    MaxErrors = 0
SYMMETRY Symmetry
INVARIANTS
    TypeOK
    BroadcastOnStableBus
    OnlyMatchingFrames
    SenderOrder
    BlockLosesNothing
    CountersExact
