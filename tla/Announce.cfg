SPECIFICATION AnnFairSpec
CONSTANTS
    s1 = s1
    s2 = s2
    h1 = h1
    x = x
    Slots = {s1, s2}
    Hosts = {h1}
    Hashes = {x}
    IdSpace = 3
    None = None
    Files <- MCFiles
    HashOf <- MCHashOf
    SizeOf <- MCSizeOf
    GLOB_MAX = 1
    MaxHups = 3
CONSTRAINTS OneManager FewQueries NothingAstray
CHECK_DEADLOCK FALSE
INVARIANTS
    TablesLive OnlyIdReuseHurts SentToAll SharesAnnounced HupsServed
PROPERTIES SearchEnds
