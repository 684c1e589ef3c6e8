SPECIFICATION Spec
CONSTANTS
    w1 = w1
    w2 = w2
    w3 = w3
    c1 = c1
    c2 = c2
    a = a
    b = b
    c = c
    d = d
    e = e
    NoTask = NoTask
    NoThread = NoThread
    Workers <- ThreeWorkers
    Clients <- TwoClients
    Tasks <- FiveTasks
    Child <- TwoParents
    MaxQueueSize = 2
INVARIANTS
    TypeOK
    QueueBounded
    ExactlyOnce
    NoOrphan
    NoStrandedTask
    NoStrandedProducer
    AtMostOneMissed
    JoinedMeansDone
PROPERTIES
    ImplementsExecutor
SYMMETRY Alike
CHECK_DEADLOCK FALSE
