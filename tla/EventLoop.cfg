\* Inputs, timers and write queues of two connections.
SPECIFICATION MCSpec
CONSTANTS
    e1 = e1
    e2 = e2
    e3 = e3
    e4 = e4
    e5 = e5
    c1 = c1
    c2 = c2
    f1 = f1
    f2 = f2
    None = None
    Events <- MCEvents
    TCPCs <- MCTCPCs
    Fds <- MCFds
    First = e1
    FdSetSize = 4
    Keys <- MCKeys
    Values = {v1, v2}
    NoValue = NoValue
    HashOf <- MCHashOf
    Primes <- MCPrimes
SYMMETRY Symmetry
INVARIANTS
    QueuesLive
    OwnersCalled
PROPERTY
    ImplementsMap
\* The loop ends when no event is left.
CHECK_DEADLOCK FALSE
