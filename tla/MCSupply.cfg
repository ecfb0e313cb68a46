SPECIFICATION FairSupplySpec
CONSTANTS
    a = a
    b = b
    g = g
    p = p
    A2 = A2
    c1 = c1
    Callers = {c1}
    Keys <- MCKeys
    Payloads = {p}
    Undecodable = Undecodable
    NoRow = NoRow
    MaxCount = 3
    Lemmas = {a, b}
    Levels = {A2}
    NoGloss = NoGloss
    NoEntry = NoEntry
    WordFiles <- MCWordFiles
    UserLevels <- MCUserLevels
    MaxTargets = 2
    CircuitBreakTargets = 1
    ListLimit = 1
    MaxAnswer = 1
    MaxNights = 2
    Job = Job
INVARIANTS
    AnsweredKeysStayServable
    StoredIsServed
    HitsNeverInvented
    PlanKeepsPromises
PROPERTY NightReachesEveryUser
