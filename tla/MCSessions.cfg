\* Two sessions of a worker: logins, shares, closes, a worker that dies.
SPECIFICATION Spec
CONSTANTS
    w1 = w1
    s1 = s1
    s2 = s2
    Workers = {w1}
    Sessions = {s1, s2}
    Host <- MCHost
    MaxCalls = 2
    MaxGrants = 4
    MaxOwed = 2
    MaxWire = 2
SYMMETRY Symmetry
INVARIANTS
    CallsAnswered
    WorkCounted
    SolutionsOwned
    KeptOnlyLate
CHECK_DEADLOCK FALSE
