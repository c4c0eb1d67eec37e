SPECIFICATION FairSpec
CONSTANTS
    k1 = k1
    Iocs <- OneIoc
    MaxAttachments = 1
    FeedVerdicts <- SomeVerdicts
    MaxIterations = 6
    MaxToolCalls = 7
    ToolAttempts = 3
    FinalizeAttempts = 2
    PersistAttempts = 3
    MaxAsks = 1
    Repositories <- AnyRepo
CHECK_DEADLOCK FALSE
INVARIANTS PackageIsTrue DuplicatesAreBounded
PROPERTY Ends
