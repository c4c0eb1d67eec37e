SPECIFICATION FairSpec
CONSTANTS
    k1 = k1
    k2 = k2
    Iocs <- TwoIocs
    MaxAttachments = 2
    FeedVerdicts <- SomeVerdicts
    EvidenceMayRaise = TRUE
    MaxIterations = 8
    MaxToolCalls = 10
CHECK_DEADLOCK FALSE
INVARIANTS ToolsDoNotCollide ConvergedIsCovered OnlyFailuresUseUpRounds
PROPERTIES NothingForgotten Ends
