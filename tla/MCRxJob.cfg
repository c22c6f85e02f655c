\* Jobs, chunks, pauses, stops and updates while two threads hash.
SPECIFICATION Spec
CONSTANTS
    t1 = t1
    t2 = t2
    Threads = {t1, t2}
    Grants <- MCGrants
    End = 2
    MaxVersion = 2
    MaxQueue = 1
    MaxCalls = 1
    MaxTurns = 2
SYMMETRY Sym
INVARIANTS
    SharesTrue
    NoncesOnce
    NoLostWakeup
    CallsAccounted
