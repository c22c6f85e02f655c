\* Connections are made and lost while jobs come, datasets are built and chunks
\* are asked for.
SPECIFICATION MinerSpec
CONSTANTS
    j1 = j1
    j2 = j2
    j3 = j3
    s1 = s1
    s2 = s2
    Conns = {1, 2, 3}
    Jobs = {j1, j2, j3}
    Seed <- MCSeed
    Ranged = {j2, j3}
    Kept = 2
    Slow = TRUE
    MaxVersion = 3
    MaxQueue = 2
INVARIANTS
    MinesForPool
    NeverStranded
    LastVersionsKnown
    ChunksArrive
CHECK_DEADLOCK FALSE
