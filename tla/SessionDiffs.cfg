CONSTANTS
    s1 = s1
    w1 = w1
    d1 = d1
    d2 = d2
    Streams <- OneStream
    Watches <- Nobody
    Diffs <- TwoDiffs
    MaxVersion = 2
    Capacity = 1
    NoRuntime = FALSE
SPECIFICATION Spec
CHECK_DEADLOCK FALSE
INVARIANT
    DiffAgainstWarm
