SPECIFICATION Spec
CONSTANTS
    MaxId = 3
    MaxSeq = 5
    Z = 2
    FullSizes = {3, 6}
    HeaderSize = 1
    FileSize = 11
    job_data_size_limit = 4
    MaxFaults = 1
    MaxUpdates = 1
INVARIANTS
    Durable
CHECK_DEADLOCK FALSE
