\* Two publishers, two connections and two lost ones.
SPECIFICATION Spec
CONSTANTS
    p1 = p1
    p2 = p2
    s1 = s1
    s2 = s2
    Publishers <- TwoPublishers
    Subjects <- TwoSubjects
    w1 = w1
    Watchers <- OneWatcher
    MaxConns = 2
    MaxDrops = 2
INVARIANTS
    IInv
    NilSafe
    ReconnectsFollowDisconnects
    FlagRight
PROPERTIES
    CloseIsFinal
    HandlersRun
