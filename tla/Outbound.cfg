CONSTANTS
    Messages = 2
    AckId = {1, 2}
    BodyRoom = 16
    AckRoom = 18
    AckLimit = 20
    SizeLimit = 64
    MaxWork = 3
SPECIFICATION FairSpec
CHECK_DEADLOCK FALSE
INVARIANTS
    TypeOK
    NothingStranded
    SendsBounded
    AcksAreWatched
    AcksAreKept
    SizeCovers
PROPERTIES
    MessagesLeave
