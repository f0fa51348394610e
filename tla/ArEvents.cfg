SPECIFICATION FairSpec
CONSTANTS
    m = m
    a = a
    b = b
    Users <- TwoUsers
    Main <- m
    Event = Event
    Nobody = Nobody
    MaxSpin = 2
\* A program whose assert () failed stops.
CHECK_DEADLOCK FALSE
INVARIANTS
    OneAnswerEach ShutdownClean
PROPERTY
    WaitsEnd
