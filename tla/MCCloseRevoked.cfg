\* An error handler gives up by calling close().
CONSTANTS
    MaxRetries = 2
    MaxFailures = 2
    HandlersMayClose = TRUE
CHECK_DEADLOCK FALSE
SPECIFICATION Spec
INVARIANTS
    CloseAlwaysFinal
