CONSTANTS
    Workers = {w1, w2}
    Tasks <- AllPaths
    Batches <- Apart
    Idle = Idle
    MaxRetries = 1
    MaxFaults = 1
    MaxDeletes = 1
SPECIFICATION FairSpec
INVARIANTS IInv RightPlace OneCopy OneFolder
PROPERTIES CallsRunDown UploadsSucceed
CHECK_DEADLOCK FALSE
