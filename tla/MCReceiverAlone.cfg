\* Two interchangeable messages of one chunk and a settled memory for one: every
\* second settlement evicts.
CONSTANTS
    Tids = {t1, t2}
    Chunks = {c1}
    MayDuplicate = FALSE
    MayDamage = FALSE
    SettledMaxEntries = 1
    ListenerMayThrow = TRUE
    LateDelivery = TRUE
SYMMETRY Symmetry
SPECIFICATION AloneSpec
INVARIANTS
    AtMostOnce
    DeliveredIntact
    AckMeansDelivered
    BuffersAccounted
    MemoryBounded
