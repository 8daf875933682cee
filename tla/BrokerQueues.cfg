SPECIFICATION Spec
CONSTANTS
    c1 = c1
    c2 = c2
    t1 = t1
    t2 = t2
    NoConn = NoConn
    Default = t1
    Conns = {c1, c2}
    Tubes = {t1}
    MaxId = 2
    Pris = {0, 1}
    Delays = {0, 1}
    Ttrs = {3}
    Timeouts = {}
    KickBounds = {2}
    UrgentThreshold = 1
    SafetyMargin = 2
    MaxTime = 1
    Commands = {"put", "reserve", "reserve_job", "delete", "release", "bury", "kick",
                "kick_job", "touch", "inspect", "hangup", "close", "sockwant", "pipeline",
                "drain"}
    HeapMayFail = TRUE
    WalMayFail = FALSE
    CopyMayFail = FALSE
    MaxLag = 1
SYMMETRY Symmetric
INVARIANTS
    TypeOK
    JobPlacement
    CountersExact
    NoMissedHandoff
    SoonestJobHeld
PROPERTIES
    ImplementsLifecycle
