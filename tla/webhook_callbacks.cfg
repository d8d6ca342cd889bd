CONSTANTS
    Tasks = {t1, t2}
    MaxRetries = 0
    WithCallback = {t1, t2}
    Malformed = {t2}
    Limit = 2
    MaxDbFaults = 1
SPECIFICATION FairSpec
INVARIANTS ToldTheTruth CallbackHonest NoResend IInv
PROPERTY CallbackSettles
