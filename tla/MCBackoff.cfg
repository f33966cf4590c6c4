\* As MCServices.cfg, but the ticker calls tick() of the machine, as the guide does.
CONSTANTS
    c1 = c1
    c2 = c2
    Clients = {c1, c2}
    Prefix <- TwoPrefixes
    MaxRequests = 1
    MaxPending = 1
    MaxAnswers = 0
    ErrorListenerMayThrow = TRUE
    Interval = 1
    Factor = 2
    MaxDelay = 3
    MaxEpoch = 1
    Ids = {m1}
    MaxVersion = 1
    MaxChanges = 1
    PageSize = 1
    MaxFailures = 1
    Drives = "machine"
    Sources = 0
    MaxTickets = 0
    Concurrency = 1
    Original = 1
    Thumbnail = 0
    InlineLimit = 1
    ApiStatuses = {}
    StorageAnswers <- ThreeAnswers
    Calls = 0
    Asked <- TwoPrompts
CHECK_DEADLOCK FALSE
SPECIFICATION Spec
PROPERTY
    BacksOff
