SPECIFICATION FairSpec
CONSTANTS
    ma = ma
    mb = mb
    d1 = d1
    short = short
    long = long
    Masters <- OneMaster
    Drainers <- OneDrainer
    ValidIds = {60}
    InvalidIds = {64}
    DiagIds = {60}
    Payloads <- OnePayload
    Size <- PayloadSize
    Options <- BlockOptions
    Schedules <- OneSchedule
    SelfClosers = {1}
    MaxSubs = 2
    MaxHeaders = 2
    MaxErrors = 1
INVARIANTS
    EndOfStreamIsFinal
PROPERTIES
    ReadersFinish
    DrainOkMeansDrained
    CallsReturn
    ImplementsAbstractBus
