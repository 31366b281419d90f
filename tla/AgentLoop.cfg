SPECIFICATION FairSpec
CONSTANTS
    Name <- MCName
    Known <- MCKnown
    Risk <- MCRisk
    Mode <- MCMode
    Call <- MCCall
    Config <- MCConfig
    Capacity = 3
    Cost = 2
    Refill = 1
    MaxTime = 2
    MaxOther = 2
    MaxIterations = 2
    MaxCalls = 2
    MaxTokens = 1
INVARIANTS
    EveryCallAnswered
    PoisonNeverReachesModel
    LimitsHold
    AuditTrailSound
PROPERTIES
    OnlyAllowedRuns
    LoopEnds
CHECK_DEADLOCK FALSE
