SPECIFICATION FairSpec
CONSTANTS
    Callers = {s1, s2}
    EmptyPlan = EmptyPlan
    Keys = {k1, EmptyPlan}
    Payloads = {0, 1}
    Undecodable = Undecodable
    NoRow = NoRow
    MaxCount = 0
    maxRetries = 1
    Window = 2
    Threshold = 2
    MaxEvents = 3
INVARIANTS
    StreamWellFormed
    ShownIsServable
PROPERTIES
    NoGenerationWhenThrottled
    EveryRequestEnds
    DegradationHeals
    ImplementsWindow
