SPECIFICATION Spec
CONSTANTS
    QUEUE_DEPTH = 3
    Contents = {zero}
    ZeroContent = zero
    Lengths = {0, 1, 2, 3, 4, 5, 6}
    CounterModulus = 2
INVARIANTS
    ValidLengthsAccepted
