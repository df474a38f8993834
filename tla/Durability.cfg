SPECIFICATION DurabilitySpec
CONSTANTS
    p1 = p1
    p2 = p2
    b1 = b1
    b2 = b2
    event = event
    Absent = Absent
    None = None
    \* AuditAnchor
    Proc = {p1, p2}
    Postgres = FALSE
    TailLoss = TRUE
    TornPublication = FALSE
    MaxRows = 3
    MaxBatch = 2
    \* PgBridge
    LastCall = 5
    MaxTimeouts = 2
    MaxLosses = 2
    \* NativeHandoff
    File = {b1, b2}
    Event = {event}
    EventOf <- TwoCopies
    Ttl = 0
    Retention = 0
    LastHour = 1
    MaxRestarts = 1
    MaxMishaps = 1
    \* ArtifactPublication
    Artifacts = 2
    Nil = Nil
    StagingDisturbed = FALSE
    MaxIntrusions = 2
    MaxErrors = 2
    \* Updater
    NoRun = NoRun
    LastCommit = 2
    MaxRuns = 3
    MaxDeaths = 1
    MaxBadCommands = 1
    \* SignedPolicy
    Sensor = {p1, p2}
    LastTime = 2
    NoBundle = NoBundle
    Unverified = Unverified
    \* BrowserCoverage
    Dest = {b1, b2}
    LastBundle = 2
    MaxRevocations = 1
SYMMETRY Alike
INVARIANTS
    DurabilityTypes
    LostTailDetected
    RestartAccepts
    ReportsAreTrue
    DecidedOnce
    AllOrNothing
    UpdatesAreSafe
    GovernedIsGuarded
PROPERTIES
    PhantomFreezes
    PolicyNeverRolledBack
    ImplementsLedger
CHECK_DEADLOCK FALSE
