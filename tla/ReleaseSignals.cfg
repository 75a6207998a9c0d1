SPECIFICATION FairSpec
CONSTANTS
    p1 = p1
    p2 = p2
    History <- Searched
    NoArtifact = NoArtifact
    Process <- TwoProcesses
    Artifact <- Payloads
    ArtifactId <- Ids
    Candidate = {"c1"}
    EvalRun <- TwoRuns
    Comparison <- Pairs
    Variant = {1, 2}
    MaxClock = 2
    MaxCutOff = 1
INVARIANTS TypeOK OnlyCutOffIsHidden ReadyRestsOnRecords NoNewReadyOnceWithheld
    AdvisoriesResolve
PROPERTIES NothingOverwritten ImplementsAppendOnlyIndex AnswersStay WritesEnd
CHECK_DEADLOCK FALSE
