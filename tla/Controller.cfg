CONSTANTS
    Word = 64
    BwUnit = 4
    BbrUnit = 8
    Mss = 2
    Usec = 2
    RoundLimit = 1000
    MinRttWin = 2
    ProbeRttMs = 1
    MaxSendWnd = 63
    Garbage = {0, 12}
    InitWnd = 6
    AckCounts = {1, 5}
    InFlight = {0, 5}
    Now = 7
    InitMdev = 3
    InitRto = 10
    MaxHeard = 3
    MaxLost = 1
SPECIFICATION Spec
CHECK_DEADLOCK FALSE
INVARIANTS
    TypeOK
    WindowForgets
    LearnsNothing
    TimeoutIsBlind
