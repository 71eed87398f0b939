SPECIFICATION HandoffSpec

CONSTANTS
    Objects = {o1, o2, o3}
    None = None
    Items <- ChainItems
    Patches <- NoPatches
    Now = 9
    MaxVersion = 3
    MaxReviews = 0
    Contracts <- ChainContracts
    Spelling <- Wordings
    Synonyms <- SamlWordings
    MaxRuns = 2
    MaxGapReviews = 1

INVARIANTS
    HandoffTypeOK
    NoSilentLoss
    LossKeepsSurfacing
    TaggedIsListed

CONSTRAINT WordedApart

SYMMETRY Symmetry

CHECK_DEADLOCK FALSE
