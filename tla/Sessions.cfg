SPECIFICATION FairSpec
CONSTANTS
    Sessions = {s1, s2}
    Hosts = {h1, h2}
    MaxWanted = 2
    MaxNodes = 2
    ParallelAttempts = 2
    Null = Null
CHECK_DEADLOCK FALSE
INVARIANTS
    ListsConsistent NodesInUse
PROPERTIES
    NodesTried AttemptsEnd
