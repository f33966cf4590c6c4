\* Five failures of any kind against a budget of two retries.  Three peers, any
\* of which connects to any other, reconnects and closes, and whose messages
\* contend for one mid.  A composite of two WebSockets.
CONSTANTS
    MaxRetries = 2
    MaxFailures = 5
    HandlersMayClose = TRUE
    p1 = p1
    p2 = p2
    p3 = p3
    Peers = {p1, p2, p3}
    MaxPairs = 3
    MaxMids = 1
    MaxPackets = 3
    MaxDeaths = 1
    MaxActivity = 4
    main = main
    backup = backup
    Networks = {main, backup}
    Kind <- Kinds
    MaxSends = 2
    MaxArrivals = 1
CHECK_DEADLOCK FALSE
SPECIFICATION NetworksSpec
INVARIANTS
    NetworksTypeOK
    OneGenerationHeard
    TimerOnlyInBackoff
    NoNetworkLost
    CloseIsFinal
    LinksMirror
    PendingAccounted
    WaitsEnd
    EveryCopyAnswered
PROPERTIES
    ResetOnlyByOpen
    Recovers
