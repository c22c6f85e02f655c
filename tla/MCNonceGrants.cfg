\* Two links, two miners: allocation.
SPECIFICATION Spec
CONSTANTS
    NonceSize = 6
    SlotSpan = 2
    l1 = l1
    l2 = l2
    c1 = c1
    c2 = c2
    Links = {l1, l2}
    Clients = {c1, c2}
    Layouts <- MCLayouts
    Counts = {1, 4}
    MaxJobs = 2
    MaxGrants = 3
INVARIANTS
    GrantsDisjoint
    GrantedIsBehind
    LedgersExact
PROPERTIES
    ImplementsOnce
CHECK_DEADLOCK FALSE
