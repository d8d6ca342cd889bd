CONSTANTS
    Tasks = {t1, t2}
    PoolSize = 2
    MaxRetries = 1
    RateLimit = 1
    MaxStamp = 1
    MaxDbFaults = 0
    NoJob = NoJob
SPECIFICATION FairSpec
INVARIANTS SingleOwner SnapshotFresh IInv
PROPERTIES EverySettles ShutdownTerminates
