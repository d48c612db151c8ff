SPECIFICATION FairSpec
CONSTANTS
    es = es
    w1 = w1
    Programs = {es, w1}
    Workers = {w1}
    ClassOf <- MCClass
    Evaluation = es
    Others = 9
    Enforce = TRUE
    Shadowed = {w1}
    Unreadable = Unreadable
    BudgetWindow = 3
    ProgramBudget = 1
    PoolBudget = 1
    FatalBudget = 2
    WindowSize = 2
    MissesToTrip = 2
    MissesToWarn = 1
    GreenBefore = 2
    Grace = 2
    PauseGap = 1
    FatalGreen = 1
    RedLookback = 1
    MaxPid = 2
    MaxFaults = 3
INVARIANTS
    TypeOK
    BudgetKept
    OneActionInFlight
PROPERTIES
    TermedOnItsOwnEvidence
    RestartsLongAfterOutage
    StartsAreNeeded
    HungIsReplaced
CHECK_DEADLOCK FALSE
