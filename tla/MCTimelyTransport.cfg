\* Two messages of two chunks; two packets may be lost, four attempts.
CONSTANTS
    Tids = {t1, t2}
    Chunks = {c1, c2}
    MayDuplicate = FALSE
    MayDamage = TRUE
    MaxAttempts = 4
    ErrorListenerMayThrow = TRUE
    MaxLosses = 2
    SettledMaxEntries = 1
    ListenerMayThrow = FALSE
    LateDelivery = FALSE
SPECIFICATION TimelySpec
INVARIANTS
    NackRepairs
PROPERTIES
    Recovers
    BuffersDrain
