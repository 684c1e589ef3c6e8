SPECIFICATION FairSpec
CONSTANTS
    w1 = w1
    w2 = w2
    w3 = w3
    c1 = c1
    c2 = c2
    a = a
    b = b
    c = c
    d = d
    e = e
    NoTask = NoTask
    NoThread = NoThread
    Workers <- TwoWorkers
    Clients <- OneClient
    Tasks <- FourTasks
    Child <- NoChildren
    MaxQueueSize = 0
PROPERTIES
    DestructorReturns
CHECK_DEADLOCK FALSE
