CONSTANTS
    a = a
    b = b
    End <- Ends
    MaxData <- OnlyA
    MaxCloses <- Both
    MaxResends = 2
    MaxDrops = 1
    MaxFaults = 1
SPECIFICATION Spec
CHECK_DEADLOCK FALSE
INVARIANTS
    TypeOK
    FinWasGot
    HalfClosedIsKnown
    PeerFollows
