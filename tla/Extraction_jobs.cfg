SPECIFICATION FairSpec

CONSTANTS
    s1 = s1
    s2 = s2
    Sources = {s1, s2}
    Workers = {w1, w2}
    Loader = loader
    None = None
    Content <- OneText
    Document <- OneDocument
    Answers <- OppositeAnswers
    Names <- InitechNames
    Caps <- SomeCaps
    Incident = "incident"
    Incs = {"INC"}
    Alias <- Normal
    Slug <- Slugs
    Alike <- AlikePairs
    Near <- NearPairs
    Vocabulary <- Confirmed12
    Directory <- InitechDirectory
    MaxAttempts = 3
    MaxFaults = 1
    MaxWarms = 1
    MaxLoads = 1

INVARIANTS
    TypeOK
    EntitiesAreSound
    BindingIsHonoured
    LosersConverge

PROPERTIES
    EveryJobEnds

CHECK_DEADLOCK FALSE
