SPECIFICATION Spec
CONSTANTS
    Half = 128
    MaxLength = 5
CHECK_DEADLOCK FALSE
INVARIANTS
    IInv
    NumberArrives
    TritsSurvive
