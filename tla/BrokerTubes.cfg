SPECIFICATION Spec
CONSTANTS
    c1 = c1
    c2 = c2
    t1 = t1
    t2 = t2
    NoConn = NoConn
    Default = t1
    Conns = {c1, c2}
    Tubes = {t1, t2}
    MaxId = 2
    Pris = {0}
    Delays = {0}
    Ttrs = {3}
    Timeouts = {}
    KickBounds = {1}
    UrgentThreshold = 1
    SafetyMargin = 2
    MaxTime = 2
    Commands = {"put", "reserve", "use", "watch", "ignore", "pause_tube", "hangup"}
    HeapMayFail = FALSE
    WalMayFail = FALSE
    CopyMayFail = FALSE
    MaxLag = 1
SYMMETRY Symmetric
INVARIANTS
    WaitingSetsAgree
    NoMissedHandoff
PROPERTIES
    BestJobFirst
