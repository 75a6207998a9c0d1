CONSTANTS
    p1 = p1
    p2 = p2
    Runner <- TwoRunners
    TotalSteps = 2
    Verdict <- Contract
    AllowWarn = FALSE
    DecisionFiles = TRUE
    MaxLost = 2
    MaxTicks = 0
SPECIFICATION Spec
INVARIANTS
    StateProgression
    RecordedStepsWereExecuted
SYMMETRY RunnerSymmetry
CHECK_DEADLOCK FALSE
