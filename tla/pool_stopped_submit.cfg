SPECIFICATION FairSpec
CONSTANTS
    w1 = w1
    w2 = w2
    w3 = w3
    c1 = c1
    c2 = c2
    a = a
    b = b
    c = c
    d = d
    e = e
    NoTask = NoTask
    NoThread = NoThread
    Workers <- OneWorker
    Clients <- TwoClients
    Tasks <- FourTasks
    Child <- NoChildren
    MaxQueueSize = 1
PROPERTIES
    StoppedSubmitReturns
CHECK_DEADLOCK FALSE
