SPECIFICATION Spec

CONSTANTS
    acme = acme
    globex = globex
    unknown = unknown
    inc1 = inc1
    inc2 = inc2
    Objects = {o1, o2}
    Ids = {inc1, inc2}
    Entities = {acme, globex, unknown}
    Unknown = unknown
    None = None
    Statements <- AllStatements
    Requests = {q1}
    Script = script
    Anchors = {}
    Affected <- OneCustomer
    Window = 1
    MaxTime = 1
    MaxEdits = 1
    MaxRulings = 1

INVARIANTS
    TypeOK
    DeclaredOnce
    LinksAreEarned
    NoCrossTalk

PROPERTIES
    EvidenceIsKept

SYMMETRY Symmetry

CHECK_DEADLOCK FALSE
