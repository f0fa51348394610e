SPECIFICATION Spec
CONSTANTS
    c1 = c1
    c2 = c2
    c3 = c3
    NoConn = NoConn
    Conns <- TwoConns
    Firewalled <- Second
    FileSize = 3
    SourceMaxFail = 2
    MinChunk = 1
    MaxSources = 3
    Unit = 1
CHECK_DEADLOCK FALSE
INVARIANTS
    AssignedConsistent OnlyChunkListAsserts
    ChunksPartition OnDisk RecoverySound
