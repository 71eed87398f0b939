SPECIFICATION Spec

CONSTANTS
    Objects = {o1, o2, o3}
    None = None
    Items <- ReviewItems
    Patches <- StancePatches
    Now = 9
    MaxVersion = 4
    MaxReviews = 1

INVARIANTS
    TypeOK
    HistoryIsFaithful
    SupersededIsExplained

SYMMETRY Symmetry

CHECK_DEADLOCK FALSE
