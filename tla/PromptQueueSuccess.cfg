SPECIFICATION Spec
CONSTANTS
    Seeds <- NewQueues
    MaxGeneration = 2
    RetryBudget = 2
    PriorStates = {}
    RetryRequests = {}
    Outcomes = {}
    MaxDepth = 2
    MaxAnswers = 1
INVARIANTS SuccessIsComplete
CHECK_DEADLOCK FALSE
