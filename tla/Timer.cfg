CONSTANTS
    m1 = m1
    m2 = m2
    Item <- Messages
    Delays = {1, 2}
    EmptyWait = 1
    MaxNow = 3
    MaxPending = 2
SPECIFICATION FairSpec
CHECK_DEADLOCK FALSE
INVARIANTS
    TypeOK
    LateByHoldUps
    NoneMislaid
PROPERTIES
    TimersGoOff
