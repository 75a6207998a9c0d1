SPECIFICATION Spec
CONSTANTS
    Seeds <- NewQueues
    MaxGeneration = 1
    RetryBudget = 2
    PriorStates = {}
    RetryRequests = {}
    Outcomes = {}
    MaxDepth = 3
    MaxAnswers = 1
INVARIANTS NoChildBeyondLimit
CHECK_DEADLOCK FALSE
