SPECIFICATION FairSpec
CONSTANTS
    c1 = c1
    c2 = c2
    c3 = c3
    NoConn = NoConn
    Conns <- ThreeConns
    Firewalled <- ThreeConns
    FileSize = 2
    SourceMaxFail = 2
    MinChunk = 1
    MaxSources = 2
    Unit = 1
CHECK_DEADLOCK FALSE
PROPERTIES
    IdleSourcesAsked
