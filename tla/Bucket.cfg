SPECIFICATION FairSpec
CONSTANTS
    Caller = {"a", "b", "c"}
    Capacity = 2
    Unit = 8
    Rate = 3
INVARIANTS
    TypeOK
    RateRespected
PROPERTIES
    EveryoneServed
