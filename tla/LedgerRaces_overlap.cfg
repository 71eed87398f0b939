SPECIFICATION RacesSpec

CONSTANTS
    Objects = {o1, o2, o3}
    None = None
    Items <- RaceItems
    Patches <- StancePatches
    Now = 9
    MaxVersion = 3
    MaxReviews = 1
    Workers = {w1, w2}
    Requests = {q1}
    MaxInFlight = 2

INVARIANTS
    ConflictIsListed
    OneOpenQuestion

PROPERTIES
    UndisturbedIsSerial
    UndisturbedIsLinked

SYMMETRY RaceSymmetry

CHECK_DEADLOCK FALSE
