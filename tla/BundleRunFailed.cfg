SPECIFICATION Spec
CONSTANTS
    TotalSteps = 2
    Checkpoint = {}
    Fix = {}
    Outcome <- DefaultExecutor
    Overlap = FALSE
    MaxExecutions = 1
INVARIANTS CompletedMeansSuccess
CHECK_DEADLOCK FALSE
