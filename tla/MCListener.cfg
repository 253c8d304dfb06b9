\* The event stream between the task and the consumer.
SPECIFICATION ListenerFairSpec
CONSTANTS
    Slots = {1}
    FecSetIndices = {0, 2}
    MerkleRoots <- MCRoots
    Pubkeys <- MCPubkeys
    DATA_SHREDS_PER_FEC = 2
    CODING_SHREDS_PER_FEC = 2
    U32 = 16
    Datagrams <- MCStream
    Leader <- MCLeader
    NoLeader = NoLeader
    NoRoot = NoRoot
    NoShard = NoShard
    NoIndex = NoIndex
    CAPACITY = 2
INVARIANTS
    StreamComplete
    PrefixConsistent
PROPERTIES
    FinalizationDelivered
    StopsAfterDrop
CHECK_DEADLOCK FALSE
