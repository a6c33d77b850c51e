SPECIFICATION Spec
CONSTANTS
    ta = ta
    tb = tb
    own = own
    foreign = foreign
    Protectors <- OneProtector
    ConfigOf <- Identity
    ReceiverConfig = own
    Threads <- OneThread
    Payloads = {"a"}
    M = 3
    Faults = {"flip_ids"}
    MaxFrames = 1
    MaxFaults = 1
    MaxNet = 1
INVARIANT
    CorruptionDetected
CHECK_DEADLOCK FALSE
