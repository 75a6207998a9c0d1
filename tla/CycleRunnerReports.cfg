CONSTANTS
    Mode = {"legacy"}
    MaxBundles = 2
    SameSecond = TRUE
    Overlap = FALSE
    MaxClock = 3
    MaxRounds = 1
    MaxCrashes = 0
SPECIFICATION Spec
INVARIANTS
    EachFixReported
