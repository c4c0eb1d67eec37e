SPECIFICATION MCSpec
CONSTANTS
    r1 = r1
    r2 = r2
    k1 = k1
    k2 = k2
    s1 = s1
    s2 = s2
    e1 = e1
    e2 = e2
    c1 = c1
    c2 = c2
    c3 = c3
    Replicas <- TwoReplicas
    Kids <- TwoKids
    Ttl = 2
    Emails <- TwoEmails
    Subjects <- TwoSubjects
    SelfRegistration = TRUE
    Callers <- ThreeCallers
    ProviderOrder <- Order
    Known <- Classes
    Configured <- Keyed
    Threshold = 2
    Cooldown = 2
    Undecodable = TRUE
INVARIANTS SessionsNameAccounts WithdrawnKeysLapse OpensOnAStreak DeadEndpointCostsLittle
PROPERTIES GenerationsEnd NobodyIsShutOut
