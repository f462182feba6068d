CONSTANTS
    Kinds <- AllKinds
    IdSpace = 16
    FirstIds <- FirstIdsMC
    CacheSize = 8
    MaxCompare = 2
    DiscardLimit = 3
    LastMsg = 5
    Copies = 2
    Window = 3
SPECIFICATION Spec
CHECK_DEADLOCK FALSE
INVARIANTS
    TypeOK
    InOrderWithoutGap
    NothingHeldBack
    FewAreLost
    ReliableOnceEach
    OrderlyNeverGoesBack
    CrossesTheWrap
