\* Two callers share one stream buffer of two: four chunks, progress events, a
\* consumer that may throw, a timer that may fire at any time.  Tokens, events,
\* logs and snapshots are few, but more than a buffer, batch, ring or map holds.
\* A chunk of two bytes; one document for each of two instances of the sender.
CONSTANTS
    w1 = w1
    w2 = w2
    Callers = {w1, w2}
    MaxChunks = 4
    BufferSize = 2
    EmitProgress = TRUE
    ConsumerMayThrow = TRUE
    SizeOf <- ChunkSizes
    TotalBytes = 5
    TokenLimit = 2
    MaxTokens = 6
    Chars = {"a", "b"}
    FlushEvents <- TwoFlushes
    MaxEvents = 4
    FlushCount = 2
    MaxBatchBytes = 4
    Timed = TRUE
    RingSize = 2
    ShownLevels = {"error"}
    MaxLogs = 3
    t1 = t1
    t2 = t2
    TaskIds = {t1, t2}
    Throttled = TRUE
    MaxTasks = 1
    MaxChanges = 3
    MaxSnapshots = 4
    Documents <- SplitDocuments
    Width <- Utf8Length
    LargeValueBytes = 3
    MaxPacketBytes = 66
    PreferredSplitPaths <- ChildrenOfP
    MaxDocuments = 1
    MaxRestarts = 1
CHECK_DEADLOCK FALSE
SPECIFICATION BuffersSpec
INVARIANTS
    BuffersTypeOK
    InOrder
    SerialFlushes
    TokensAccounted
    EventsIntact
    LossIsExact
    ProgressTold
    DocumentsIntact
PROPERTIES
    ChunksDrain
