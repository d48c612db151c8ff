SPECIFICATION Spec
CONSTANTS
    s1 = s1
    s2 = s2
    o1 = o1
    o2 = o2
    Shards = {s1, s2}
    Ops = {o1}
    NoShard = NoShard
    MaxDispatch = 2
    MaxGreetings = 1
SYMMETRY MCSymmetry
INVARIANTS
    TypeOK
    BookkeepingOK
    ReverseInSync
    NoLostWakeup
    TakenOrLost
    AdminDisableWins
    HeldHasTask
PROPERTIES
    SupersededNeverTaken
    ImplementsTable
