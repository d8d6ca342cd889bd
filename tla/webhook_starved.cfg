CONSTANTS
    Tasks = {t1, t2}
    MaxRetries = 0
    WithCallback = {t1, t2}
    Malformed = {t2}
    Limit = 1
    MaxDbFaults = 0
SPECIFICATION FairSpec
PROPERTY TriedAtAll
