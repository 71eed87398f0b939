SPECIFICATION PipelineSpec

CONSTANTS
    Objects = {o1, o2, o3}
    None = None
    Items <- Story
    Patches <- StancePatches
    Now = 9
    MaxVersion = 3
    MaxReviews = 1

INVARIANTS
    EveryStageDisagreementFlagged

SYMMETRY Symmetry

CHECK_DEADLOCK FALSE
