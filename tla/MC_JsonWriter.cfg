CONSTANTS
    t1 = t1
    t2 = t2
    r1 = r1
    r2 = r2
    r3 = r3
    Topics <- MC_Topics
    Records <- MC_Records
    Unencodable = {}
    MaxBatch = 2
    MaxCalls = 3
SPECIFICATION Spec
PROPERTY ImplementsRecordWriter
CHECK_DEADLOCK FALSE
