SPECIFICATION FairSpec

CONSTANTS
    Sources = {s1}
    Clients = {c1}
    Workers = {w1}
    NoSource = NoSource
    MaxAttempts = 3
    StaleTimeout = 2
    AttemptTime = 2
    RetryAfters = {0}
    LagFloor = 1
    MaxCrashes = 1

PROPERTIES
    OrphanIsReclaimed
