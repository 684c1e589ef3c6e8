SPECIFICATION FairSpec
CONSTANTS
    s1 = s1
    s2 = s2
    r1 = r1
    Senders <- TwoSenders
    Receivers <- OneReceiver
    Capacity = 2
    LogRoom = 1
    MaxSends = 3
    MaxQueues = 2
    MaxDeaths = 1
INVARIANTS
    TypeOK
    QueueIsTail
    LatestKept
PROPERTIES
    RunningReceiverServes
    SignalledNodeDies
    ImplementsMailbox
CHECK_DEADLOCK FALSE
