\* Does slot_root tell lists of different lengths apart?
SPECIFICATION SlotRootSpec
CONSTANTS
    SetRoots <- MCSetRoots
INVARIANTS
    SlotRootCommits
CHECK_DEADLOCK FALSE
