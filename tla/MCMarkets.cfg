\* Does the market scan end only at the end of the list?
SPECIFICATION Spec
CONSTANTS
    MAX_MARKETS = 2
    MaxListed = 3
    perp_pda <- MCPerpPda
    spot_pda <- MCSpotPda
    perp_oracle <- MCPerpOracle
    spot_oracle <- MCSpotOracle
    Available = Available
    UserAccounts <- MCUserAccounts
    MaxAnswer = 2
    MAX_CANDIDATES = 2
    NoIx = NoIx
INVARIANTS
    MarketsComplete
CHECK_DEADLOCK FALSE
