SPECIFICATION FairSpec
CONSTANTS
    CPUs = {c1, c2}
    Entries = {e1, e2}
    Keys <- OneTcpKey
    NULL = NULL
    REPORT_INTERVAL = 1
    CONN_EST_TIMEOUT = 2
    CONN_TCP_RELEASE = 3
    CONN_UDP_RELEASE = 4
    Word = 32
    StartClock = 2
    MaxClock = 19
    MaxPackets = 2
    MaxRun = 1
    MaxLate = 0
    LastArrival = 4
    MapCapacity = 1
    RingCapacity = 2
    TimerMigrates = TRUE
    ReuseStorage = TRUE
CHECK_DEADLOCK FALSE
PROPERTY IdleFlowCollected
