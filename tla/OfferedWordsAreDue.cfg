SPECIFICATION Spec
CONSTANTS
    r1 = r1
    r2 = r2
    Requests = {r1, r2}
    Users = {1}
    Words = {1}
    Latencies = {}
    MaxAttempts = 2
    MaxDay = 1
INVARIANT OfferedWordsAreDue
