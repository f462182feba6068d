CONSTANTS
    Kinds <- RoOnly
    IdSpace = 16
    FirstIds <- FirstIdsMC
    CacheSize = 4
    MaxCompare = 2
    DiscardLimit = 2
    LastMsg = 7
    Copies = 2
    Window = 3
SPECIFICATION Spec
CHECK_DEADLOCK FALSE
INVARIANT SequentialForever
