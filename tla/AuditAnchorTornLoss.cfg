SPECIFICATION SafetySpec
CONSTANTS
    Proc = {p1, p2}
    Absent = Absent
    Postgres = FALSE
    TailLoss = TRUE
    TornPublication = TRUE
    MaxRows = 3
    MaxBatch = 2
INVARIANTS
    LostTailDetected
SYMMETRY ProcSymmetry
CHECK_DEADLOCK FALSE
