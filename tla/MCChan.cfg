SPECIFICATION Spec
CONSTANTS
    t1 = t1
    t2 = t2
    t3 = t3
    m1 = m1
    m2 = m2
    NoMessage = NoMessage
    Threads <- ThreeThreads
    Messages <- TwoMessages
    Capacity = 2
INVARIANTS
    TypeOK
    NoStrandedReceiver
    NoStrandedSender
    NoSleeperAfterClose
PROPERTY
    ImplementsFifo
