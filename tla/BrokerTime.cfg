SPECIFICATION FairSpec
CONSTANTS
    c1 = c1
    c2 = c2
    t1 = t1
    t2 = t2
    NoConn = NoConn
    Default = t1
    Conns = {c1, c2}
    Tubes = {t1}
    MaxId = 1
    Pris = {0}
    Delays = {0, 2}
    Ttrs = {2}
    Timeouts = {1, 2}
    KickBounds = {1}
    UrgentThreshold = 1
    SafetyMargin = 1
    MaxTime = 4
    Commands = {"put", "reserve", "release", "touch", "bury", "hangup", "close"}
    HeapMayFail = FALSE
    WalMayFail = TRUE
    CopyMayFail = TRUE
    MaxLag = 1

    
    
    
PROPERTIES
    LeaseEnds
    OneAnswer
    WaiterAnswered
    DelayEnds
