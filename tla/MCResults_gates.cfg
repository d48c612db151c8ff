SPECIFICATION Spec
CONSTANTS
    t1 = t1
    t2 = t2
    t3 = t3
    Compile = Compile
    Cases <- SmallCases
    MaxTries = 2
    MaxFaults = 1
    MaxRevisions = 0
SYMMETRY Symmetry
INVARIANTS
    OutcomeIsComplete
    ScoreIsThatOfFullGrading
    GatesHold
    ScreeningSkipsHaveACause
    GatesNeverHoldEachOther
CHECK_DEADLOCK FALSE
