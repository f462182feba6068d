CONSTANTS
    m1 = m1
    m2 = m2
    m3 = m3
    fin = fin
    NoMsg = NoMsg
    UserMsg <- User
    ControlMsg <- Control
    IdSpace = 4
    InitWnd = 2
    WndSizes = {1, 3}
    QuickLimit = 2
SPECIFICATION Spec
CHECK_DEADLOCK FALSE
INVARIANT NoneDropped
