CONSTANTS
    Tasks = {t1, t2}
    MaxRetries = 0
    Services = {s1, s2}
    NoTask = NoTask
SPECIFICATION FairSpec
INVARIANTS FileThere NothingLost LeaksAccounted IInv
PROPERTY LetsGo
CHECK_DEADLOCK FALSE
