SPECIFICATION Spec
CONSTANTS
    QUEUE_DEPTH = 4
    Contents = {zero, a}
    ZeroContent = zero
    Lengths = {0, 1, 2, 4, 5}
    CounterModulus = 4
INVARIANTS
    TypeOK
PROPERTIES
    ImplementsFifo
