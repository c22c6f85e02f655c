\* Links are lost and miners are moved; a pool may send a job before it answers
\* the login.
SPECIFICATION Spec
CONSTANTS
    c1 = c1
    c2 = c2
    a = a
    b = b
    d = d
    Clients = {c1, c2}
    LinkIds = {a, b, d}
    MaxLinks = 2
    Units = 2
    MaxJobs = 1
    MaxTasks = 1
    Losses = TRUE
    EarlyJobs = TRUE
    Moves = TRUE
SYMMETRY Symmetry
INVARIANTS
    LinksLimited
    NoMinerForgotten
    HomesKept
    SlotReleased
CHECK_DEADLOCK FALSE
