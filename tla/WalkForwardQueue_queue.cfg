SPECIFICATION FairSpec
CONSTANTS
    w1 = w1
    w2 = w2
    Scopes = {scope}
    Workers = {w1, w2}
    Clients = {api}
    Buckets = 2
    BucketLength = 3
    QueuedStale = 1
    RunningStale = 3
    Retention = 4
    MaxAttempts = 2
    None = None
INVARIANTS
    TypeOK
    OneWorkerPerAttempt
PROPERTIES
    JobResolved
