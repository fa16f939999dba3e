CONSTANTS
    c1 = c1
    c2 = c2
    c3 = c3
    k1 = k1
    k2 = k2
    k3 = k3
    Clients <- TwoClients
    Keys <- TwoKeys
    MAX_CONNECTIONS = 2
    MAX_SESSIONS = 1
    EventCount = 3
    Capacity = 1
    Ops <- AllOps
SPECIFICATION FairSpec
PROPERTIES
    NothingWedges
