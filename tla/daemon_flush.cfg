CONSTANTS
    Tasks = {t1}
    PoolSize = 1
    MaxRetries = 0
    RateLimit = 1
    MaxStamp = 1
    MaxDbFaults = 0
    NoJob = NoJob
SPECIFICATION Spec
PROPERTY OutcomeFlushed
