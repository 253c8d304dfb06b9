\* Two threads share the cache.
SPECIFICATION FairSpec
CONSTANTS
    Threads = {t1, t2}
    Slots = {0, 1, 2, 3, 4}
    Pubkeys <- MCPubkeys
    Schedule <- MCSchedule
    BATCH_SIZE = 2
    MAX_CACHE_ENTRIES = 3
    NoLeader = NoLeader
    NoThread = NoThread
INVARIANTS
    Coherent
    NoStampede
    CacheBounded
    KnownUnlessEvicted
PROPERTIES
    GuardReleased
