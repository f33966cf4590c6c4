\* One caller that awaits every call, and an asynchronous consumer.
CONSTANTS
    w1 = w1
    w2 = w2
    Callers = {w1}
    MaxChunks = 4
    BufferSize = 2
    EmitProgress = FALSE
    ConsumerMayThrow = FALSE
CHECK_DEADLOCK FALSE
SPECIFICATION Spec
INVARIANTS
    EofIsLast
