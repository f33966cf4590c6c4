\* One caller that awaits every call, and a consumer slower than the timer.
CONSTANTS
    w1 = w1
    w2 = w2
    Callers = {w1}
    MaxChunks = 4
    BufferSize = 2
    EmitProgress = FALSE
    ConsumerMayThrow = FALSE
CHECK_DEADLOCK FALSE
SPECIFICATION FairSpec
PROPERTIES
    MaxWaitHonoured
