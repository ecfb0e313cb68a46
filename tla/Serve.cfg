SPECIFICATION FairSpec
CONSTANTS
    Processes = {p1, p2, p3}
    NoProcess = NoProcess
    BankSize = 2
    MaxRequests = 1
    MaxStarts = 4
INVARIANTS
    BankIsWhole
PROPERTIES
    SeededOnce
    SignalStops
CHECK_DEADLOCK FALSE
