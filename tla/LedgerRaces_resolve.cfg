SPECIFICATION RacesSpec

CONSTANTS
    Objects = {o1, o2}
    None = None
    Items <- RaceItems
    Patches <- StancePatches
    Now = 9
    MaxVersion = 3
    MaxReviews = 0
    Workers = {w1}
    Requests = {q1, q2}
    MaxInFlight = 2

PROPERTIES
    ResolvedOnce

SYMMETRY RaceSymmetry

CHECK_DEADLOCK FALSE
