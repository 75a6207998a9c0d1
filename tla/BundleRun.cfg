SPECIFICATION Spec
CONSTANTS
    TotalSteps = 3
    Checkpoint <- AllReviews
    Fix <- Findings
    Outcome <- AnyAnswer
    Overlap = TRUE
    MaxExecutions = 2
INVARIANTS TypeOK CompletedInOrder StepsWaitForReviews StepsWaitForFixes
    CompletedHaveResults
PROPERTIES ResultsNotRepeated
CHECK_DEADLOCK FALSE
