SPECIFICATION PgBridgeSpec
CONSTANTS
    LastCall = 4
    MaxTimeouts = 1
    MaxLosses = 0
INVARIANT TimeoutOnlyFails
CHECK_DEADLOCK FALSE
