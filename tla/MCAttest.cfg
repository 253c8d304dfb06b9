\* Deltas, attestations and claimed transition lists.
SPECIFICATION Spec
CONSTANTS
    AccountKeys = {"p", "q"}
    AccountForHash <- MCAccounts
    NoAccount = NoAccount
    LIMB = 4
    Starts <- MCStarts
    MaxChanges = 2
    MaxClaims = 2
INVARIANTS
    DeltaTracksState
    VerifiedIsTruth
    TamperNoticed
CHECK_DEADLOCK FALSE
