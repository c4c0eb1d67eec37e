SPECIFICATION AssessmentSpec
CONSTANTS
    Counts <- Reported
    Engines <- EnginesSaying
    Percents <- Tiers
    Alerts <- AlertTexts
    AlertIocs <- OneAddress
    DroppedIocs <- OneDropper
    Malscores <- Scores
    Behaviours <- Reports
    Hosts <- TwoHosts
    Sightings <- NoHostOrMore
    Recipients <- Mailing
    TenantRules <- OneRule
    CameAsEmail = TRUE
    Connectors <- ThreeFeeds
CHECK_DEADLOCK FALSE
INVARIANTS JudgementsAgree InsidersHaveNothingToBlock
PROPERTIES RiskNeverFalls SightingsNeverExonerate
