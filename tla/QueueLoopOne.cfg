CONSTANTS
    p1 = p1
    p2 = p2
    Runner <- OneRunner
    TotalSteps = 3
    Verdict <- Contract
    AllowWarn = TRUE
    DecisionFiles = TRUE
    MaxLost = 3
    MaxTicks = 1
SPECIFICATION FairSpec
INVARIANTS
    TypeOK
    ExecutionsAccountedFor
    OnlyFreshCheckpointsAdmitted
PROPERTIES
    ReplayParityMatches
    ResultsOnlyAppended
    ImplementsSequentialQueue
    EventuallySettled
CHECK_DEADLOCK FALSE
