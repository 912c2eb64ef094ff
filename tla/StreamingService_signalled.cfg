SPECIFICATION Spec
CONSTANTS
    MaxStarts = 2
    MaxMoments = 1
    AutoStart = FALSE
    Requests = {2}
    DefaultInterval = 2
    Scale = 10
    Half = 128
PROPERTY
    SignalledLoopStops
