SPECIFICATION Spec
CONSTANTS
    p1 = p1
    p2 = p2
    lockHost = lockHost
    Absent = Absent
    Empty = Empty
    None = None
    f1 = f1
    event = event
    File = {f1}
    Event = {event}
    EventOf <- OneFile
    Ttl = 0
    Retention = 0
    LastHour = 1
    MaxRestarts = 1
    MaxMishaps = 1
    PoolSize = 1
    QueueMax = 1
    TasksPerChild = 1
    LastTask = 2
    MaxFailures = 1
PROPERTIES
    TakenUpIsSettled
    EveryTaskAnswered
    DeadOwnerReclaimed
CHECK_DEADLOCK FALSE
