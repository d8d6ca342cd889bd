CONSTANT
    Pids = {p1, p2, p3}
SPECIFICATION FairSpec
INVARIANTS FileNamesDaemon IInv
PROPERTIES OneAtATime RmOnlyStopped OverlapEnds
