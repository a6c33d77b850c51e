SPECIFICATION PathSpec
CONSTANTS
    Ids = {0, 16, 60}
    Payloads <- Responses
    TypeOf <- Types
    FaultBytes <- Edge
    MaxFaults = 2
    Commands = {"", "version", "capabilities", "status", "convert", "help"}
    Arguments <- ManyArgs
    AccumSize = 16777216
    Documents <- Handwritten
    LogArguments <- LogArgs
INVARIANTS
    PathTypeOK
    SingleFaultDetected
    IntactIsAccepted
    MessageMatchesFrame
    
