\* A burst of four, two tokens every three milliseconds.
SPECIFICATION Spec
CONSTANTS
    maxTokens = 4
    refillRate = 2
    intervalMs = 3
    MaxTime = 16
INVARIANTS
    IInv
    WindowBound
    HalfRateKept
PROPERTY
    ImplementsBucket
CHECK_DEADLOCK FALSE
