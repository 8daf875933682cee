SPECIFICATION Spec
CONSTANTS
    MaxId = 3
    MaxSeq = 5
    Z = 2
    FullSizes = {3, 6}
    HeaderSize = 1
    FileSize = 11
    job_data_size_limit = 4
    MaxFaults = 2
    MaxUpdates = 1
INVARIANTS
    TypeOK
    RecoveryExact
    RefsExact
    SpaceCovers
    NoOverrun
    WriteFits
\* a server whose log has failed, or which finds no space to start, stops
CHECK_DEADLOCK FALSE
