\* Three rounds of streaming, one interval that wraps.  The process stops
\* when a ticker panics, so a state without successor is no error.
SPECIFICATION SafeSpec
CONSTANTS
    MaxStarts = 3
    MaxMoments = 1
    AutoStart = FALSE
    Requests <- WrappingRequests
    DefaultInterval = 2
    Scale = 10
    Half = 128
INVARIANTS
    IInv
    NoDoubleClose
    TickerPanicNeedsWrap
PROPERTY
    EndsOnlyWhenStopped
CHECK_DEADLOCK FALSE
