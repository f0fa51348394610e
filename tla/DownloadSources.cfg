SPECIFICATION Spec
CONSTANTS
    c1 = c1
    c2 = c2
    c3 = c3
    NoConn = NoConn
    Conns <- ThreeConns
    Firewalled <- ThreeConns
    FileSize = 5
    SourceMaxFail = 1
    MinChunk = 1
    MaxSources = 2
    Unit = 1
SYMMETRY Symmetry
CONSTRAINT Beginning
CHECK_DEADLOCK FALSE
INVARIANTS
    SourceLimit
