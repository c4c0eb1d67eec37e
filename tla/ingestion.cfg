SPECIFICATION IngestionSpec
CONSTANTS
    Ids <- EightIds
    Requests <- ThreeIds
    Limit = 2
    Repositories <- AnyRepo
    Modes <- EitherMode
    Outages = TRUE
    MayDie = TRUE
    Messages = 5
    Poison <- Second
    Fatal <- Fifth
    MaxRetries = 2
    MaxCrashes = 2
CHECK_DEADLOCK FALSE
INVARIANTS CountsAreExact AcceptedIsPollable AtLeastOnce OneExtraPerCrash
PROPERTIES OutcomesAreFinal MemorySettles ConsumerAdvances
