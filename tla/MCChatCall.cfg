SPECIFICATION ChatSpec
CONSTANTS
    Window = 1
    Threshold = 5
    MaxEvents = 2
    maxRetries = 2
    FirstBudget = 1024
    Replies <- SmallReplies
    OtherStatuses = {401, 404, 429, 500, 503}
    NoReply = NoReply
INVARIANTS
    RetriesAreEarned
    ContentIsWhole
PROPERTY SignalsAreThrottles
