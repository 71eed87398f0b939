SPECIFICATION FairSpec

CONSTANTS
    Sources = {s1, s2}
    Clients = {c1, c2}
    Workers = {w1, w2}
    NoSource = NoSource
    MaxAttempts = 2
    StaleTimeout = 1
    AttemptTime = 2
    RetryAfters = {0, 3}
    LagFloor = 1
    MaxCrashes = 1

INVARIANTS
    TypeOK
    IngestIsOnce
    SoleHolder
    CommitsAccounted
    AtAnyTiming

PROPERTIES
    Implements
    EverySourceSettles
    OnlyLateIsOvertaken
