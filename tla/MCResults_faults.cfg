SPECIFICATION FairSpec
CONSTANTS
    t1 = t1
    t2 = t2
    t3 = t3
    Compile = Compile
    Cases <- PickedCases
    MaxTries = 2
    MaxFaults = 3
    MaxRevisions = 1
INVARIANTS
    TypeOK
    ScoreIsOfTheseEvaluations
PROPERTIES
    GivenUpIsLeftAlone
    EventuallyScored
CHECK_DEADLOCK FALSE
