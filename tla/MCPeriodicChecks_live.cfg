SPECIFICATION CheckedSpec
CONSTANTS
    s1 = s1
    s2 = s2
    o1 = o1
    o2 = o2
    Shards = {s1}
    Ops = {o1, o2}
    NoShard = NoShard
    MaxDispatch = 2
    MaxGreetings = 1
PROPERTIES
    NoGroupHeldForever
    ImplementsTable
