SPECIFICATION Spec
CONSTANTS
    PERIOD_VALUE = 24590
    PeriodMs = 3000
    CountModulus = 65536
    TickNum = 128
    TickDen = 15625
    WordModulus = 67108864
    Waits <- RealWaits
    MaxCalls = 0
    RolloverModulus = 2
INVARIANTS
    MillisecondsElapsed
CHECK_DEADLOCK FALSE
