SPECIFICATION PipelineSpec

CONSTANTS
    Objects = {o1, o2, o3}
    None = None
    Items <- AllItems
    Patches <- StancePatches
    Now = 9
    MaxVersion = 3
    MaxReviews = 1

INVARIANTS
    NoSilentContradiction
    SupportOutranked
    LineageIsExact

SYMMETRY Symmetry

CHECK_DEADLOCK FALSE
