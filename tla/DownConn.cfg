SPECIFICATION FairSpec
CONSTANTS
    Conns = {c1, c2}
    Hashes = {h1, h2}
    NoHash = NoHash
    FileSize = 2
    SourceMaxFail = 2
    MaxPushId = 3
CHECK_DEADLOCK FALSE
INVARIANTS
    IdleHoldsNothing
    BusyIsAwaited
    PushTableConsistent
    OnlyRecvBufAsserts
PROPERTIES
    ImplementsIface
    BusyEnds
