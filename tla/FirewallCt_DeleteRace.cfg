SPECIFICATION Spec
CONSTANTS
    CPUs = {c1, c2}
    Entries = {e1, e2}
    Keys <- OneUdpKey
    NULL = NULL
    REPORT_INTERVAL = 1
    CONN_EST_TIMEOUT = 2
    CONN_TCP_RELEASE = 3
    CONN_UDP_RELEASE = 3
    Word = 32
    StartClock = 2
    MaxClock = 11
    MaxPackets = 2
    MaxRun = 0
    MaxLate = 11
    LastArrival = 11
    MapCapacity = 1
    RingCapacity = 2
    TimerMigrates = FALSE
    ReuseStorage = FALSE
SYMMETRY Symmetry
CHECK_DEADLOCK FALSE
PROPERTY DeletedOnlyInRelease
