SPECIFICATION AssessmentSpec
CONSTANTS
    Counts <- Reported
    Engines <- EnginesSaying
    Percents <- InPercent
    Alerts <- AlertTexts
    AlertIocs <- OneLink
    DroppedIocs <- OneDropper
    Malscores <- Scores
    Behaviours <- Reports
    Hosts <- TwoHosts
    Sightings <- NoHostOrMore
    Recipients <- OneRecipient
    TenantRules <- OneRule
    CameAsEmail = TRUE
    Connectors <- KeyedFeed
CHECK_DEADLOCK FALSE
INVARIANT ExportsAreGrounded
