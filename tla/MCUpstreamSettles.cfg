\* Links are lost and miners are moved, over two jobs of each link: every attach
\* settles, on the job of the link.
SPECIFICATION FairSpec
CONSTANTS
    c1 = c1
    c2 = c2
    a = a
    b = b
    d = d
    Clients = {c1, c2}
    LinkIds = {a, b, d}
    MaxLinks = 2
    Units = 1
    MaxJobs = 2
    MaxTasks = 1
    Losses = TRUE
    EarlyJobs = FALSE
    Moves = TRUE
INVARIANTS
    JobOfHome
PROPERTIES
    AttachSettles
CHECK_DEADLOCK FALSE
