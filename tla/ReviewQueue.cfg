SPECIFICATION QueueSpec
CONSTANTS
    i1 = i1
    i2 = i2
    ada = ada
    ann = ann
    bob = bob
    None = None
    Instance = {i1, i2}
    Query = {1}
    Admin = {ada}
    Approver = {ann, bob}
    Arrivals = {"pending", "pending_justification"}
    Sealing = {TRUE}
    Verdicts = {"approved", "denied"}
    Ops = {"decide", "assign", "justify", "escalate", "purge", "notify", "sync"}
    Postgres = TRUE
    MaxTickets = 2
    MaxRefs = 2
    ListLimit = 1
    LastState = 1
    MaxFaults = 1
SYMMETRY Alike
INVARIANTS DeciderOwns PurgeSticks EvidenceCurrent
PROPERTIES ImplementsHeldQueue RefsAdvance
CHECK_DEADLOCK FALSE
