SPECIFICATION MCSpec
CONSTANTS
    Counts <- Reported
    Engines <- EnginesSaying
    Percents <- InPercent
    Profile <- FourIncidents
    Attempts <- FiveAttempts
    IncidentOf <- OneRetry
    MaxFingerprints = 3
    CandidateLimit = 2
    MatchesKept = 1
    Requests <- TwoRequests
    IndicatorOf <- TwoDossiers
    Bundled <- OneBundled
    Online <- OneOnline
    Wiring <- Keyless
    Authors = {w1, w2}
    RuleIds = {TEN1, TEN2}
    BuiltinIds <- NoRules
    MaxRules = 1
CHECK_DEADLOCK FALSE
INVARIANTS QuotaNearlyHolds NeighboursAreMatched DossiersNeverExonerate
PROPERTIES ClustersAreComponents PivotsBothWays PathsAreShortest
