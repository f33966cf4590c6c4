\* One message of one chunk and a budget of two attempts, over a network that
\* may do anything.
CONSTANTS
    Tids = {t1}
    Chunks = {c1}
    MayDuplicate = TRUE
    MayDamage = FALSE
    MaxAttempts = 2
    ErrorListenerMayThrow = TRUE
    SettledMaxEntries = 1
    ListenerMayThrow = FALSE
    LateDelivery = FALSE
SPECIFICATION FairSpec
INVARIANTS
    TypeOK
    ResolvedMeansDelivered
PROPERTIES
    ContractSpec
    EverySendSettles
