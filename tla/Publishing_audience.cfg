SPECIFICATION Spec
CONSTANTS
    Users = {"system", "alice", "bob"}
    NoUser = ""
    System = "system"
CHECK_DEADLOCK FALSE
INVARIANTS IInv OnlyAccessible SharedAsAsked
PROPERTY ImplementsDelivery
