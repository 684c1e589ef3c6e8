SPECIFICATION FairSpec
CONSTANTS
    t1 = t1
    t2 = t2
    t3 = t3
    x = x
    y = y
    Unset = Unset
    NoThread = NoThread
    Threads <- ThreeThreads
    Items <- TwoItems
    capacity_ = 2
INVARIANTS
    TypeOK
    CapacityRespected
    NoStrandedItem
    StopReachesEverybody
PROPERTIES
    StopEndsPops
    ImplementsBuffer
CHECK_DEADLOCK FALSE
