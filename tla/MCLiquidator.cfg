\* The liquidator against a chain that goes on and nodes that fail.
SPECIFICATION Spec
CONSTANTS
    MAX_MARKETS = 2
    MaxListed = 3
    perp_pda <- MCPerpPda
    spot_pda <- MCSpotPda
    perp_oracle <- MCPerpOracle
    spot_oracle <- MCSpotOracle
    Available = Available
    UserAccounts <- MCUserAccounts
    MaxAnswer = 3
    MAX_CANDIDATES = 2
    NoIx = NoIx
INVARIANTS
    CacheIsPrefix
    PanicExplained
    InstructionLoads
    ScansAgree
CHECK_DEADLOCK FALSE
