SPECIFICATION PublicationSpec
CONSTANTS
    Artifacts = 2
    Nil = Nil
    StagingDisturbed = TRUE
    MaxIntrusions = 1
    MaxErrors = 0
INVARIANT PriorRecoverable
CHECK_DEADLOCK FALSE
