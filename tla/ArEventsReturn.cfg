SPECIFICATION FairSpec
CONSTANTS
    m = m
    a = a
    b = b
    Users <- OneUser
    Main <- m
    Event = Event
    Nobody = Nobody
    MaxSpin = 2
CHECK_DEADLOCK FALSE
PROPERTY
    PauseReturns
