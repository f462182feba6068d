CONSTANTS
    a = a
    b = b
    End <- Ends
    MaxData <- OnlyA
    MaxCloses <- OnlyA
    MaxResends = 3
    MaxDrops = 1
    MaxFaults = 1
SPECIFICATION FairSpec
CHECK_DEADLOCK FALSE
PROPERTY CloseCompletes
