CONSTANTS
    Mode = {"legacy", "three_slice"}
    MaxBundles = 2
    SameSecond = FALSE
    Overlap = TRUE
    MaxClock = 6
    MaxRounds = 2
    MaxCrashes = 2
SPECIFICATION FairSpec
INVARIANTS
    TypeOK
    CertifiedOnRecord
    EachFixReported
    HistoryIsPath
    PromotedOnEvidence
PROPERTIES
    CycleEnds
