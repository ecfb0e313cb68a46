SPECIFICATION SerialSpec
CONSTANTS
    r1 = r1
    r2 = r2
    Requests = {r1, r2}
    Users = {1}
    Words = {1, 2}
    Latencies = {6000}
    MaxAttempts = 3
    MaxDay = 0
SYMMETRY RequestSymmetry
INVARIANTS
    CountersTellHistory
PROPERTIES
    ImplementsLedger
    IntervalGrowth
