SPECIFICATION FairSpec
CONSTANTS
    Thread = {t1, t2, t3}
    Conn <- MCConn
    NoConn = NoConn
    Capacity = 2
    MayFork = TRUE
INVARIANTS
    CapacityIsKept
    OneUserPerSession
    NoLostWakeup
PROPERTY
    EveryCheckoutEnds
