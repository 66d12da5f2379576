SPECIFICATION FairSpec
CONSTANTS
    Queues = {q1, q2}
    Tasks = {t1, t2, t3, t4}
    Workers = {w1, w2}
    NoQueue = NoQueue
CHECK_DEADLOCK FALSE
PROPERTIES ImplementsSerialExecutor EarlyTaskRuns
