SPECIFICATION Spec
CONSTANTS
    n1 = n1
    w1 = w1
    c1 = c1
    c2 = c2
    c3 = c3
    h1 = h1
    Nothing = Nothing
    Works = {n1}
    Worlds = {w1}
    Characters = {c1, c2, c3}
    Chapters = {h1}
    WorkOf <- MCWorkOf
    Shapes <- MCShapes
    FirstWorld = Nothing
    FirstCast <- MCFirstCast
    PageLimit = 1
    MaxRequests = 3
INVARIANTS RetrievedIsSound OnlyOrphansExcluded CastIsLive ListIsExact
PROPERTY CanonWasAnchored
CHECK_DEADLOCK FALSE
