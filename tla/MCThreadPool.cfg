SPECIFICATION FairSpec
CONSTANTS
    Workers = {w1, w2}
    Clients = {c1, c2}
    Tasks = {t1, t2, t3}
    MaxQueueSize = 2
CHECK_DEADLOCK FALSE
PROPERTIES ImplementsExecutor AcceptedRuns ShutdownReturns
