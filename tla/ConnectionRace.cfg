CONSTANTS
    a = a
    b = b
    End <- Ends
    MaxData <- OnlyA
    MaxCloses <- Both
    MaxResends = 0
    MaxDrops = 0
    MaxFaults = 0
SPECIFICATION Spec
CHECK_DEADLOCK FALSE
INVARIANT FinMovesOn
