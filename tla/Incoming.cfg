\* The server, the pushes we answer and the configured port; and the client.
SPECIFICATION MCSpec
CONSTANTS
    c1 = c1
    c2 = c2
    Conns <- MCConns
    PORT_SPACE = 3
    DefaultPort = 1
    PortValues <- MCPortValues
    MaxReads = 2
    MaxLength = 2
    MaxHeaderReads = 2
INVARIANTS
    ListeningConsistent
    HandedByKind
    ClientSafe
PROPERTY WaitEnds
\* After the memory was damaged nothing more is said of the program.
CHECK_DEADLOCK FALSE
