CONSTANTS
    None = None
    Refused = Refused
    Intents <- AllIntents
    Commands <- AllCommands
    Tokens <- EnvTokens
    WithSeparator <- Separated
    Number <- Numbers
    Systems <- SystemLists
    DefaultTimeout = 1800
    Items = 3
    Capacity = 2
    Faults = TRUE
SPECIFICATION FairSpec
CHECK_DEADLOCK FALSE
INVARIANTS
    PlanIsMeant
    OutputSound
    EvaluatedOnce
PROPERTIES
    RequestEnds
