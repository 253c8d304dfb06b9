\* Does total_shreds_observed count the shreds of an honest leader's block that arrived?
SPECIFICATION HistorySpec
CONSTANTS
    Slots = {1}
    FecSetIndices = {0, 2}
    MerkleRoots <- MCRoots
    Pubkeys <- MCPubkeys
    DATA_SHREDS_PER_FEC = 2
    CODING_SHREDS_PER_FEC = 2
    U32 = 16
    Datagrams <- MCHonest
    Leader <- MCLeader
    NoLeader = NoLeader
    NoRoot = NoRoot
    NoShard = NoShard
    NoIndex = NoIndex
INVARIANTS
    TotalIsObserved
