SPECIFICATION Spec
CONSTANTS
    r1 = r1
    r2 = r2
    i1 = i1
    i2 = i2
    i3 = i3
    Requests = {r1, r2}
    Items = {i1, i2, i3}
    NoItem = NoItem
    MaxResponses = 4
    maxItems = 2
    MinPrecise = 1
    MaxSessions = 2
    MaxUsers = 2
SYMMETRY PlacementSymmetry
INVARIANTS
    AsksEachItemOnce
    CalmTestIsExact
CHECK_DEADLOCK FALSE
