SPECIFICATION Spec
CONSTANTS
    Downloads = {d1, d2, d3}
    Hashes = {h1, h2, h3}
    Null = Null
    MaxActive = 1
CHECK_DEADLOCK FALSE
SYMMETRY Symmetry
INVARIANTS
    LimitHeld SlotsUsed IndexConsistent OnlyOddFilesHurt
