SPECIFICATION Spec
CONSTANTS
    MaxStarts = 3
    MaxMoments = 2
    AutoStart = TRUE
    Requests = {2}
    DefaultInterval = 2
    Scale = 10
    Half = 128
PROPERTIES
    ImplementsSwitch
    ActiveKeepsTicking
