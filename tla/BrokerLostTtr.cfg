SPECIFICATION FairSpec
CONSTANTS
    c1 = c1
    c2 = c2
    t1 = t1
    t2 = t2
    NoConn = NoConn
    Default = t1
    Conns = {c1}
    Tubes = {t1}
    MaxId = 1
    Pris = {0}
    Delays = {0}
    Ttrs = {2}
    Timeouts = {1}
    KickBounds = {1}
    UrgentThreshold = 1
    SafetyMargin = 1
    MaxTime = 4
    Commands = {"put", "reserve", "hangup"}
    HeapMayFail = FALSE
    WalMayFail = FALSE
    CopyMayFail = FALSE
    MaxLag = 1
PROPERTIES
    LeaseExpires
