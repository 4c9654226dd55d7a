SPECIFICATION FairSpec
CONSTANTS
    PERIOD_VALUE = 7
    PeriodMs = 3
    CountModulus = 32
    TickNum = 1
    TickDen = 1000
    WordModulus = 100000000
    Waits <- ShortWaits
    MaxCalls = 3
    RolloverModulus = 2
INVARIANTS
    TypeOK
    NeverEarly
    OneSignalPerCall
PROPERTIES
    EveryWaitEnds
