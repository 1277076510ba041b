SPECIFICATION Spec
CONSTANTS
    ann = ann
    bob = bob
    dora = dora
    Clients = {ann, bob, dora}
    Uses <- OneClassEach
    Priorities = {0, 1}
    MaxAge = 1
    Weight <- DefaultWeights
    BoostPerTick = 16
    BoostCap = 16
    PriorityWeight = 100
    SkipWeight = 25
    AgeWeight = 80
    WaitBound <- DefaultWaits
    PassBound = 8
INVARIANTS
    CreditsBalance
    BoostKeepsOrder
    TurnForEveryClass
    TurnForEveryClient
CHECK_DEADLOCK FALSE
