\* Retunes with targets and shares in flight.
SPECIFICATION Spec
CONSTANTS
    U32 = 24
    U64 = 600
    MinDifficulty = 2
    Pools <- MCPools
    Seeds <- MCSeeds
    Wants = {1, 10, 30}
    Values = {0, 52, 72, 100, 290}
    MaxIssues = 3
    MaxWire = 2
INVARIANTS
    SolutionsPass
    VerdictsFair
    RetuneEnds
CHECK_DEADLOCK FALSE
