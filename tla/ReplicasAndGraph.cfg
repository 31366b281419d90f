SPECIFICATION PartsSpec
CONSTANTS
    Request = {r1, r2, r3}
    Faults = {"redis", "body", "cancel", "expire"}
    NoRun = NoRun
    Replica = {b1, b2, b3}
    Wedged = {b1}
    NoReplica = NoReplica
    MaxBoots = 5
    a = a
    b = b
    c = c
    d = d
    Node <- SomeNodes
    Unknown = Unknown
    Entry = a
    Spec0 <- AllSpecs
    Answers = {"x", "y"}
    Always = "always"
    MaxDepth = 3
    Fan = 2
    Guarded = TRUE
INVARIANTS
    AtMostOnce
    OneAtATime
    AcceptsExactly
    ReturnIsComplete
PROPERTIES
    ReplayIsOriginal
    HonoursPromise
    RetryIsAnswered
    BootsFinish
    GraphEnds
CHECK_DEADLOCK FALSE
