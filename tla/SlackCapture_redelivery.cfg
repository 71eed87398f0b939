SPECIFICATION FairSpec

CONSTANTS
    root = root
    mark = mark
    Posts = {root, mark}
    Parent <- ThreadOf
    Organic = {root}
    Mentions = {mark}
    Marks = {mark}
    Saved = {root}
    Servers = {v1, v2}
    None = None
    MaxTries = 3
    MaxFaults = 1
    MaxEdits = 1
    MaxClicks = 1

INVARIANTS
    TypeOK
    OneSourcePerEvent
    AnswersAreTrue

PROPERTIES
    PostedIsCaptured

CHECK_DEADLOCK FALSE
