CONSTANTS
    c1 = c1
    c2 = c2
    Clients <- TwoClients
    Rejected <- Second
    MaxConns = 3
    MAX_REMOTE_CONNECTIONS = 1
    SetupTimeout = 1
    ItemTimeout = 1
    MaxItems = 2
    MaxTime = 1
SPECIFICATION LiveSpec
CHECK_DEADLOCK FALSE
INVARIANTS
    ServiceSound
    AnswersMatch
PROPERTIES
    ClientGoneFrees
