SPECIFICATION AttestationSpec
CONSTANTS
    Proc = {p1, p2}
    Absent = Absent
    Postgres = TRUE
    TailLoss = FALSE
    TornPublication = TRUE
    MaxRows = 2
    MaxBatch = 1
INVARIANTS
    CheckpointNamesCommitted
PROPERTIES
    TailCheckpointedOrReported
CHECK_DEADLOCK FALSE
