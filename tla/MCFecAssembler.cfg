\* One slot, an equivocating leader and noise.
SPECIFICATION Spec
CONSTANTS
    Slots = {1}
    FecSetIndices = {0, 2, 4}
    MerkleRoots <- MCRoots
    Pubkeys <- MCPubkeys
    DATA_SHREDS_PER_FEC = 2
    CODING_SHREDS_PER_FEC = 2
    U32 = 16
    Datagrams <- MCAll
    Leader <- MCLeader
    NoLeader = NoLeader
    NoRoot = NoRoot
    NoShard = NoShard
    NoIndex = NoIndex
INVARIANTS
    TypeOK
    ShardsOfOneBlock
    ReconstructedAtThreshold
    SlotAgreesWithSets
    NoMissedFinalization
    FinalizedOnce
    FinalizationSound
PROPERTIES
    Irrevocable
    Implements
