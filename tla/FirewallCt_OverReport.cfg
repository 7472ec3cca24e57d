SPECIFICATION Spec
CONSTANTS
    CPUs = {c1, c2}
    Entries = {e1, e2}
    Keys <- OneUdpKey
    NULL = NULL
    REPORT_INTERVAL = 2
    CONN_EST_TIMEOUT = 2
    CONN_TCP_RELEASE = 3
    CONN_UDP_RELEASE = 3
    Word = 32
    StartClock = 3
    MaxClock = 5
    MaxPackets = 2
    MaxRun = 1
    MaxLate = 5
    LastArrival = 5
    MapCapacity = 1
    RingCapacity = 2
    TimerMigrates = FALSE
    ReuseStorage = FALSE
SYMMETRY Symmetry
CHECK_DEADLOCK FALSE
INVARIANT NeverOverReported
