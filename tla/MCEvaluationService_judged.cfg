SPECIFICATION FairESSpec
CONSTANTS
    c = c
    t1 = t1
    Ops = {c, t1}
    Compile = c
    MaxDispatch = 7
    RaceWindow = FALSE
    MaxInvalidations = 1
    MaxFaults = 1
INVARIANTS
    ESTypeOK
    NoStaleRow
    PendingPredictsLoop
    ProcessedOnce
PROPERTIES
    KeepsPoolContract
    EventuallyJudged
CHECK_DEADLOCK FALSE
