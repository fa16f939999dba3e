CONSTANTS
    c1 = c1
    c2 = c2
    c3 = c3
    k1 = k1
    k2 = k2
    k3 = k3
    Clients <- ThreeClients
    Keys <- ThreeKeys
    MAX_CONNECTIONS = 2
    MAX_SESSIONS = 2
    EventCount = 2
    Capacity = 1
    Ops <- AllOps
SYMMETRY Interchangeable
SPECIFICATION Spec
INVARIANTS
    RegistrySound
    SlotsCounted
    ReplayIsWholeStream
    DiffWins
