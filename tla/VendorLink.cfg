SPECIFICATION SafetySpec
CONSTANTS
    r1 = r1
    r2 = r2
    Replica = {r1, r2}
    Offset <- OneAhead
    None = None
    Window = 1
    Skew = 1
    MaxTime = 3
    MaxDecisions = 1
    MaxFaults = 1
INVARIANTS
    RevocationEnforced
    WindowBounded
    NoReplay
PROPERTIES
    VerdictsAdvance
    LiftedByVerdict
