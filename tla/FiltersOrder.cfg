CONSTANTS
    p1 = p1
    p2 = p2
    Peer <- OnePeer
    Lengths = {1}
    MaxBodies = 2
    SliceLimit = 2
    FlagLimit = 8
SPECIFICATION Spec
CHECK_DEADLOCK FALSE
INVARIANTS
    InOrder
