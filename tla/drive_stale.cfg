CONSTANTS
    Workers = {w1}
    Tasks <- TwoUploads
    Batches <- Together
    Idle = Idle
    MaxRetries = 1
    MaxFaults = 0
    MaxDeletes = 1
SPECIFICATION FairSpec
PROPERTY CacheIsAdvisory
CHECK_DEADLOCK FALSE
