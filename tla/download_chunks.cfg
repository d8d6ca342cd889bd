CONSTANTS
    Jobs = {j1, j2}
    Dest <- SamePath
    Source <- OwnSource
    MaxEdits = 1
    Length <- ShortAndEven
    MaxLength = 3
    Chunk = 2
    MaxRetries = 1
    Blank = Blank
SPECIFICATION FairSpec
INVARIANTS DoneIsWhole BytesInPlace IInv
PROPERTIES ImplementsDelivery RequestsRunDown CallReturns
CHECK_DEADLOCK FALSE
