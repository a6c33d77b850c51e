SPECIFICATION Spec
CONSTANTS
    NotANumber = NotANumber
    Texts <- SomeTexts
    MaxID = 63
    DiagIds = {60, 61}
    Requests <- SomeRequests
    InnerDepth = 1
    DefaultDepth = 1
    SelfClosers = {2}
    MaxSubs = 2
    MaxHeaders = 3
INVARIANTS
    TypeOK
    
    BlockForwardsEverything
PROPERTIES
    PumpsExit
    ConsumersFinish
