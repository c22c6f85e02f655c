\* Fast mode: overlapping allocations, failures and a drain that times out,
\* under fair threads.
SPECIFICATION FairSpec
CONSTANTS
    t1 = t1
    t2 = t2
    w1 = w1
    w2 = w2
    s1 = s1
    s2 = s2
    Threads = {t1, t2}
    Workers = {w1, w2}
    Seeds = {s1, s2}
    Fast = TRUE
    Tries = 1
INVARIANTS
    RebuildAlone
    VmCoherent
PROPERTIES
    AllocationEnds
    StopReturns
