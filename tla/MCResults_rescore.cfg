SPECIFICATION Spec
CONSTANTS
    t1 = t1
    t2 = t2
    t3 = t3
    Compile = Compile
    Cases <- PickedCases
    MaxTries = 2
    MaxFaults = 0
    MaxRevisions = 1
INVARIANTS
    RescoreIsDone
CHECK_DEADLOCK FALSE
