\* A client that makes every call, two workers, two jobs that each submit a
\* job of their own, and a job submitted through the queue of the client.
CONSTANTS
    c1 = c1
    b1 = b1
    p1 = p1
    p2 = p2
    k1 = k1
    k2 = k2
    NoThread = NoThread
    Clients = {c1}
    Calls <- MCAllCalls
    NThreads = 2
    Jobs = {p1, p2, k1, k2, b1}
    Children <- MCChildren
    QueueJobs = {b1}
    WakingJobs = {k1}
    MaxBatch = 2
    MaxRemaining = 1
    ThreadFailures = {"later"}
    Spurious = {"pool", "queue"}
SPECIFICATION FairSpec
INVARIANTS
    PoolConsistent
    NoWakeUpLost
    NoCircularWait
PROPERTIES
    CompletionMeansDone
    CallsReturn
    ImplementsJobPool
CHECK_DEADLOCK FALSE
