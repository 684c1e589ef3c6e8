SPECIFICATION FairSpec
CONSTANTS
    m1 = m1
    m2 = m2
    Controllers <- TwoControllers
    Intervals <- SomeIntervals
    MaxUnread = 3
    Faults <- AllFaults
INVARIANTS
    TypeOK
    StoppedIsJoined
    RunningIsServed
    OneCallbackPerExpiration
    NoLostEdge
    AtMostOneLateBatch
PROPERTIES
    ExpirationsAreServed
    StopReturns
