\* The pure algorithms and the commands against what they are for.
SPECIFICATION MCSpec
CONSTANTS
    MaxLeaves = 8
    SetRoots <- MCSetRoots
    FecSets = {f, g}
    Threshold = 3
    Total = 6
    Lengths <- MCLengths
    NoRegions = NoRegions
    DATA_SHREDS = 32
    CAPACITY_PER_SHRED = 963
    PayloadLengths <- MCPayloadLengths
    Leaders = {"a", "b", "c"}
    NoLeaderYet = "none"
    StartSlots = {0, 1}
    Answers <- MCAnswers
    Slots = {7}
    FecSetIndices = {0, 8}
    MerkleRoots = {"a", "b"}
    Pubkeys = {"leader"}
    DATA_SHREDS_PER_FEC = 8
    CODING_SHREDS_PER_FEC = 8
    U32 = 64
    Datagrams <- MCDatagrams
    Leader <- MCLeader
    NoLeader = NoLeader
    NoRoot = NoRoot
    NoShard = NoShard
    NoIndex = NoIndex
    slot = 7
    set_a <- MCSetA
    set_b <- MCSetB
    AccountKeys = {"p"}
    AccountForHash <- MCAccounts
    NoAccount = NoAccount
    LIMB = 4
    pubkey = "p"
    Flip <- MCFlip
    wait_slots = 1
    MaxLag = 1
    FirstSlots = 2
INVARIANTS
    PositionBound
    
    ConfidenceIsExact
    LayoutSound
    BuilderAgrees
    PayloadCarried
    RunsExact
    DemoVerdicts
    NeverUnexpected
    SecondSnapshotWithinLag
PROPERTIES
    CommandEnds
CHECK_DEADLOCK FALSE
