SPECIFICATION FairSpec
CONSTANTS
    k1 = k1
    k2 = k2
    Iocs <- TwoIocs
    MaxAttachments = 1
    FeedVerdicts <- SomeVerdicts
    EvidenceMayRaise = FALSE
    MaxIterations = 8
    MaxToolCalls = 9
    MaxReflectionRounds = 2
CHECK_DEADLOCK FALSE
INVARIANTS NoDuplicateWork DependenciesFirst DrainedIsDone
PROPERTY Ends
