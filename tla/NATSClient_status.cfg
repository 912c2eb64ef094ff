SPECIFICATION SafeSpec
CONSTANTS
    p1 = p1
    p2 = p2
    s1 = s1
    s2 = s2
    Publishers <- OnePublisher
    Subjects <- TwoSubjects
    w1 = w1
    Watchers <- OneWatcher
    MaxConns = 2
    MaxDrops = 1
INVARIANT
    StatusTruth
