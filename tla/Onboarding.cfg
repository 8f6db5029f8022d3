CONSTANTS
    w1 = w1
    w2 = w2
    Worker = {w1, w2}
    Browser = {b1, b2}
    NoBrowser = NoBrowser
    Histories <- MCHistories
SPECIFICATION FairSpec
INVARIANTS
    TypeOK
    AccountsAreProved
PROPERTIES
    BearerHandover
    CancelledIsDead
    ConsumedIsFinished
CHECK_DEADLOCK FALSE
