SPECIFICATION Spec
CONSTANTS
    CPUs = {c1, c2}
    Entries = {e1, e2}
    Keys <- TwoUdpKeys
    NULL = NULL
    REPORT_INTERVAL = 1
    CONN_EST_TIMEOUT = 1
    CONN_TCP_RELEASE = 2
    CONN_UDP_RELEASE = 2
    Word = 32
    StartClock = 2
    MaxClock = 8
    MaxPackets = 2
    MaxRun = 1
    MaxLate = 8
    LastArrival = 8
    MapCapacity = 1
    RingCapacity = 2
    TimerMigrates = TRUE
    ReuseStorage = TRUE
SYMMETRY Symmetry
CHECK_DEADLOCK FALSE
INVARIANTS
    TypeOK
    CountersConserved
    TimerArmedWhileMapped
PROPERTIES
    OnlyOwnEntryUnmapped
    StagesLastTheirTimeout
    ImplementsLifecycle
