CONSTANTS
    s1 = s1
    w1 = w1
    d1 = d1
    d2 = d2
    Streams <- OneStream
    Watches <- OneWatch
    Diffs <- OneDiff
    MaxVersion = 2
    Capacity = 1
    NoRuntime = TRUE
SPECIFICATION LiveSpec
CHECK_DEADLOCK FALSE
INVARIANTS
    SessionSound
    FailureIsTold
    DeliveredChain
PROPERTIES
    WaitersWake
    CancelReleases
    WatchCatchesUp
