SPECIFICATION Spec

CONSTANTS
    kickoff = kickoff
    review = review
    Files = {kickoff, review}
    InitialFiles <- OneOrBoth
    Kinds = {"call"}
    KindOf <- AllCalls
    Imported = {"call"}
    NoConsent <- Unconsented
    Requests = {q1, q2}
    None = None
    MaxEdits = 1

INVARIANTS
    TypeOK
    StatusIsTrue

PROPERTIES
    RunIsHonest
    SyncReflectsDisk

SYMMETRY Symmetry

CHECK_DEADLOCK FALSE
