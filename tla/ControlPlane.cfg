SPECIFICATION ControlPlaneSpec
CONSTANTS
    a1 = a1
    a2 = a2
    b1 = b1
    b2 = b2
    Absent = Absent
    None = None
    Nothing = Nothing
    lockHost = lockHost
    Empty = Empty
    \* FileMutationLock
    Proc = {a1, a2}
    Host <- OneHost
    StartsEmpty = TRUE
    EmptyBlocks = TRUE
    PidReuse = TRUE
    MaxTokens = 3
    MaxCrashes = 1
    \* Sessions
    Server = {a1, a2}
    Account = {ann}
    AccountRole = {"security_admin", "auditor"}
    Login = {b1, b2}
    RecoveryCode = {code}
    SharedWriters = FALSE
    SessionTtl = 1
    RevocationRetention = 1
    LastTick = 2
    \* Provisioning
    Node = {a1, a2}
    Name = {ann}
    Invitation = {b1, b2}
    InviteToken = {t1, t2, t3}
    Validity = 1
    LastDay = 1
    \* LoginThrottle
    Client = {a1, a2}
    UserName = {b1, b2}
    MaxAttempts = 2
    WindowLength = 1
    MaxKeys = 5
    LastMinute = 2
    \* ParsePool
    PoolSize = 2
    QueueMax = 1
    TasksPerChild = 2
    LastTask = 4
    MaxFailures = 1
    \* PgRestore
    Restore = {a1, a2}
    Other = Other
    NoDb = NoDb
    MaxTroubles = 2
    \* PolicyStore
    Editor = {a1, a2}
    LastPolicy = 4
SYMMETRY Alike
INVARIANTS
    ControlPlaneTypes
    ExclusiveUntilCrash
    LiveOwnersAccounted
    EndedStaysEnded
    RecoveryCodeOnce
    OneSource
    TokensSpentOnce
    SprayThrottled
    QueueServed
    OpenWhenVerified
PROPERTIES
    PolicyAccounted
CHECK_DEADLOCK FALSE
