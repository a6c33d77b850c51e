SPECIFICATION Spec
CONSTANTS
    MaxID = 63
    BadNumber = BadNumber
    Junk = "a:b"
    SignalNames = {"s1", "s2"}
    Widths = {3, 12}
    Offsets = {0, 5}
    FrameNames = {"f1", "f2"}
    Ids = {0, 16}
    Delays = {10}
    Payloads <- SomePayloads
    Lines <- AnyLine
    MaxLines = 11
INVARIANTS
    TypeOK
    ScheduleIdsValid
    DeclaredIsParsed
    DecodeIsSlice
CHECK_DEADLOCK FALSE
