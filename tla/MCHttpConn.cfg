CONSTANTS
    c1 = c1
    c2 = c2
    Co = {c1, c2}
    NoConn = NoConn
    Https = {c1}
    MaxReads = 2
SPECIFICATION FairSpec
INVARIANTS
    DeletedIsUnused
    NotForgotten
    OneLateRequest
    BodyDropped
PROPERTIES
    ExpireEnds
    RemoveDeletes
CHECK_DEADLOCK FALSE
