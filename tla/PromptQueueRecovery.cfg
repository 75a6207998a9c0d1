SPECIFICATION Spec
CONSTANTS
    Seeds <- RecoveryQueues
    MaxGeneration = 1
    RetryBudget = 2
    PriorStates = {"queued", "review_triggered", "execution_gated", "runnable"}
    RetryRequests = {"retryable", "not_retryable"}
    Outcomes = {"succeeded", "failed", "crashed", "persisted", "write_failed", "persist_failed"}
    MaxDepth = 1
    MaxAnswers = 2
INVARIANTS TypeOK ExecutedOnce
PROPERTIES ExecutionAuthorized ComesToRest NoWayRound
CHECK_DEADLOCK FALSE
