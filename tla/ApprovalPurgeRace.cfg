SPECIFICATION SafetySpec
CONSTANTS
    i1 = i1
    i2 = i2
    ada = ada
    None = None
    Instance = {i1, i2}
    Query <- OneQuery
    Admin = {ada}
    Approver = {}
    Arrivals = {"pending"}
    Verdicts = {"approved", "denied"}
    Sealing = {TRUE, FALSE}
    Ops = {"decide", "purge", "notify"}
    Postgres = TRUE
    MaxTickets = 1
    MaxRefs = 1
    ListLimit = 1
    LastState = 1
    MaxFaults = 0
INVARIANTS PurgeSticks
CHECK_DEADLOCK FALSE
