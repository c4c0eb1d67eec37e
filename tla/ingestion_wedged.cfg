SPECIFICATION IngestionSpec
CONSTANTS
    Ids <- TwoIds
    Requests <- OneId
    Limit = 1
    Repositories <- Postgres
    Modes <- Inline
    Outages = FALSE
    MayDie = TRUE
    Messages = 2
    Poison <- None
    Fatal <- Second
    MaxRetries = 0
    MaxCrashes = 0
CHECK_DEADLOCK FALSE
PROPERTY NeverWedged
