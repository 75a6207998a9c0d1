SPECIFICATION Spec
CONSTANTS
    Seeds <- TestQueues
    MaxGeneration = 1
    RetryBudget = 2
    PriorStates = {"review_triggered"}
    RetryRequests = {"retryable"}
    Outcomes = {"succeeded", "failed", "crashed", "persisted", "write_failed", "persist_failed"}
    MaxDepth = 1
    MaxAnswers = 2
INVARIANTS ChildrenLinked StatusHasEvidence LimitsAgree
PROPERTIES LinksAreFinal AnswerIsFinal
CHECK_DEADLOCK FALSE
