SPECIFICATION SafetySpec
CONSTANTS
    Proc = {p1, p2}
    H = H
    Host <- OneHost
    Absent = Absent
    Empty = Empty
    StartsEmpty = FALSE
    EmptyBlocks = FALSE
    PidReuse = FALSE
    MaxTokens = 3
    MaxCrashes = 1
INVARIANTS
    MutualExclusion
SYMMETRY ProcSymmetry
CHECK_DEADLOCK FALSE
