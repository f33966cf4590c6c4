\* The listeners of one message may throw while they run.
CONSTANTS
    Tids = {t1}
    Chunks = {c1}
    MayDuplicate = FALSE
    MayDamage = FALSE
    SettledMaxEntries = 1
    ListenerMayThrow = TRUE
    LateDelivery = FALSE
SPECIFICATION AloneSpec
INVARIANTS
    ExactlyOnce
