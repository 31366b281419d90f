SPECIFICATION ResilienceSpec
CONSTANTS
    NotOpen = NotOpen
    Threshold = 2
    Recovery = 2
    t1 = t1
    t2 = t2
    t3 = t3
    Task <- MCTask
    Attempts <- MCAttempts
    r1 = r1
    r2 = r2
    a1 = a1
    a2 = a2
    b1 = b1
    pa = pa
    pb = pb
    RotationInterval = 2
    Request = {r1, r2}
    Provider = {pa, pb}
    NumKeys <- MCNumKeys
    Agent = {a1, a2, b1}
    ProviderOf <- MCProviderOf
INVARIANT
    OpenKeepsNewCallsOff
PROPERTIES
    OneVerdictPerCall
    HonoursContract
    Recovers
    WalkIsTold
    EveryRequestEnds
