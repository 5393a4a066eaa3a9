SPECIFICATION FairSpec
CONSTANTS
    Thread = {t1, t2, t3, t4}
    Resource = {r1, r2}
    MaxCalls = 2
    MaxSpurious = 1
INVARIANTS
    TypeOK
    EachInOnePlace
    NoLostWakeup
PROPERTIES
    ImplementsResourcePool
    AcquireReturns
