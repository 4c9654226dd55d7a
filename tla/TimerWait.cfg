SPECIFICATION Spec
CONSTANTS
    PERIOD_VALUE = 24590
    PeriodMs = 3000
    CountModulus = 65536
    TickNum = 128
    TickDen = 15625
    WordModulus = 67108864
    Waits = {3000, 80000, 300000}
INVARIANTS
    TargetIsTicksAway
CHECK_DEADLOCK FALSE
