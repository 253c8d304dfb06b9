\* Does the stored erasure shard keep clear of the tail for every variant?
SPECIFICATION LayoutSpec
CONSTANTS
    Lengths = {1203, 1228}
    NoRegions = NoRegions
INVARIANTS
    ErasureBeforeTail
CHECK_DEADLOCK FALSE
