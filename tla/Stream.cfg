SPECIFICATION FairSpec
CONSTANTS
    Handler = Handler
    Beat = Beat
    NoOne = NoOne
    MaxEvents = 4
    MaxTicks = 4
INVARIANTS
    FramesNeverMix
PROPERTIES
    ImplementsEventStream
    BothGoroutinesEnd
CHECK_DEADLOCK FALSE
