SPECIFICATION Spec
CONSTANTS
    c1 = c1
    c2 = c2
    c3 = c3
    Conns <- MCConns
    LINE_BUF_SIZE = 6
    BUCKET_BUF_SIZE = 2
    job_data_size_limit = 2
    PutSize <- MCPutSize
    MaxFaults = 0
    Scripts <- MCLongLine
CHECK_DEADLOCK FALSE
INVARIANTS
    EveryLineAnswered
