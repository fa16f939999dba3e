CONSTANTS
    K = 1
    ITEMS_PER_FORK = 2
    TIME_PER_FORK = 1
    ItemTimeout = 1
    MaxItems = 2
    MaxTime = 1
    MaxSpawns = 2
SPECIFICATION LiveSpec
CHECK_DEADLOCK FALSE
INVARIANTS
    PoolSound
    AnswersMatch
PROPERTIES
    NoOrphans
    PoolDrains
