SPECIFICATION IngestionSpec
CONSTANTS
    Ids <- TwoIds
    Requests <- TwoIds
    Limit = 1
    Repositories <- Postgres
    Modes <- Inline
    Outages = FALSE
    MayDie = FALSE
    Messages = 0
    Poison <- None
    Fatal <- None
    MaxRetries = 0
    MaxCrashes = 0
CHECK_DEADLOCK FALSE
PROPERTY AcceptedSettles
