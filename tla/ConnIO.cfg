SPECIFICATION FairSpec
CONSTANTS
    c1 = c1
    c2 = c2
    c3 = c3
    Conns <- MCConns
    LINE_BUF_SIZE = 6
    BUCKET_BUF_SIZE = 2
    job_data_size_limit = 2
    PutSize <- MCPutSize
    MaxFaults = 1
    Scripts <- MCScripts
\* Clients have finite scripts: at the end everybody may have gone; and the use
\* of a freed connection is not followed.
CHECK_DEADLOCK FALSE
INVARIANTS
    TypeOK
    Framed
    InterestMatches
    NoFreedConn
PROPERTIES
    EveryRequestAnswered
