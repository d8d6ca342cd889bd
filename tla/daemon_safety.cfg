CONSTANTS
    Tasks = {t1, t2, t3}
    PoolSize = 1
    MaxRetries = 0
    RateLimit = 1
    MaxStamp = 2
    MaxDbFaults = 1
    NoJob = NoJob
SPECIFICATION Spec
INVARIANTS OncePerProcess OrphansAccounted NoOvertaking
PROPERTIES PauseDrains ImplementsTaskQueue
SYMMETRY Symmetry
