\* The outputs as a function of the inputs: equivocation, noise, a second slot.
SPECIFICATION HistorySpec
CONSTANTS
    Slots = {1, 2}
    FecSetIndices = {0, 2}
    MerkleRoots <- MCRoots
    Pubkeys <- MCPubkeys
    DATA_SHREDS_PER_FEC = 2
    CODING_SHREDS_PER_FEC = 2
    U32 = 16
    Datagrams <- MCTwoSlots
    Leader <- MCLeader
    NoLeader = NoLeader
    NoRoot = NoRoot
    NoShard = NoShard
    NoIndex = NoIndex
INVARIANTS
    ReconstructsWhatArrived
    FinalizesWhatArrived
    TracksVerified
