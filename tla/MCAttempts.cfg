SPECIFICATION Spec
CONSTANTS
    r1 = r1
    r2 = r2
    Requests = {r1, r2}
    Users = {1}
    Words = {1, 2}
    Latencies = {6000}
    MaxAttempts = 3
    MaxDay = 1
SYMMETRY RequestSymmetry
INVARIANTS
    TypeOK
    RowsFollowSM2
    CountersNeverInvented
    StoredCardsInRange
    LatestIsLastInserted
