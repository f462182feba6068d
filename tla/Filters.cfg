CONSTANTS
    p1 = p1
    p2 = p2
    Peer <- OnePeer
    Lengths = {1, 4, 5}
    MaxBodies = 2
    SliceLimit = 2
    FlagLimit = 8
SPECIFICATION FairSpec
CHECK_DEADLOCK FALSE
INVARIANTS
    TypeOK
    LeftBehind
PROPERTIES
    ImplementsCourier
    BodiesArrive
