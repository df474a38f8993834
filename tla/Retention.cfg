SPECIFICATION RetentionSpec
CONSTANTS
    i1 = i1
    i2 = i2
    ada = ada
    None = None
    Instance = {i1, i2}
    Query = {1, 2}
    Admin = {ada}
    Approver = {}
    Arrivals = {"pending"}
    Sealing = {TRUE}
    Verdicts = {"approved", "denied"}
    Ops = {"decide", "escalate", "purge", "notify"}
    Postgres = TRUE
    MaxTickets = 0
    MaxRefs = 0
    ListLimit = 1
    LastState = 0
    MaxFaults = 1
PROPERTIES HeldKeepsRaw DeadlinesAreMet TransactionsEnd
CHECK_DEADLOCK FALSE
