SPECIFICATION Spec
CONSTANTS
    r1 = r1
    r2 = r2
    a1 = a1
    a2 = a2
    agent = agent
    alice = alice
    bob = bob
    Nobody = Nobody
    Actors <- Users
    Requesters <- Agent
    Replicas <- TwoReplicas
    Deployments <- Both
    Ids <- TwoIds
    Raised <- Fewer
    MaxCrashes = 1
INVARIANT AnswersKept
