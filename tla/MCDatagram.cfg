\* Five payloads over a window of three.
SPECIFICATION FairSpec
CONSTANTS
    Retries = 2
    Window = 3
    Lag = 2
    MaxSend = 5
INVARIANTS
    AtMostOnce
    NothingLost
PROPERTIES
    ImplementsLink
CHECK_DEADLOCK FALSE
