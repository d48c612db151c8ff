SPECIFICATION Spec
CONSTANTS
    i1 = i1
    i2 = i2
    i3 = i3
    i4 = i4
    i5 = i5
    i6 = i6
    Items = {i1, i2, i3, i4, i5, i6}
    Priorities <- TwoPriorities
    Times <- SomeTimes
    Clock = {1}
    MaxPushes = 6
SYMMETRY MCSymmetry
INVARIANTS
    ReverseIndexesQueue
    EventMeansNonEmpty
PROPERTIES
    ImplementsOrderedQueue
CHECK_DEADLOCK FALSE
