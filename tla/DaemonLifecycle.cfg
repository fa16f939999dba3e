CONSTANTS
    d1 = d1
    d2 = d2
    d3 = d3
    c1 = c1
    Nobody = Nobody
    Daemons <- ThreeDaemons
    Foreground <- OneForeground
    Clients <- OneClient
    Serial = TRUE
    Crashes = TRUE
SPECIFICATION LiveSpec
CHECK_DEADLOCK FALSE
INVARIANTS
    SocketSound
    RestartSound
PROPERTIES
    LauncherAnswered
    SignalStops
