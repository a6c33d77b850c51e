SPECIFICATION FairSpec
CONSTANTS
    ma = ma
    mb = mb
    d1 = d1
    short = short
    long = long
    Masters <- OneMaster
    Drainers <- OneDrainer
    ValidIds = {60}
    InvalidIds = {}
    DiagIds = {60}
    Payloads <- OnePayload
    Size <- PayloadSize
    Options <- BlockOptions
    Schedules = {}
    SelfClosers = {}
    MaxSubs = 1
    MaxHeaders = 2
    MaxErrors = 0
PROPERTIES
    DrainReturnsInTime
