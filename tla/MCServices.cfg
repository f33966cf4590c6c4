\* Two clients with one request each pending and one more; two models and three
\* changes; two files and up to three tickets; two generations.
CONSTANTS
    c1 = c1
    c2 = c2
    Clients = {c1, c2}
    Prefix <- TwoPrefixes
    MaxRequests = 2
    MaxPending = 1
    MaxAnswers = 2
    ErrorListenerMayThrow = TRUE
    Interval = 1
    Factor = 2
    MaxDelay = 3
    MaxEpoch = 3
    Ids = {m1, m2}
    MaxVersion = 2
    MaxChanges = 3
    PageSize = 1
    MaxFailures = 1
    Drives = "handle"
    Sources = 2
    MaxTickets = 3
    Concurrency = 2
    Original = 1
    Thumbnail = 1
    InlineLimit = 1
    ApiStatuses = {413}
    StorageAnswers <- ThreeAnswers
    Calls = 2
    Asked <- TwoPrompts
CHECK_DEADLOCK FALSE
SPECIFICATION Spec
INVARIANTS
    ServicesTypeOK
    RequestLedger
    OneChain
    WatermarkCovers
    CompletesWhatWasSent
    AnswersAreOwn
PROPERTIES
    BarForward
    SyncConverges
