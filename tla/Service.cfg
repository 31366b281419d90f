SPECIFICATION ServiceSpec
CONSTANTS
    Caller = {c1, c2}
    Agent = {a}
    AgentOf <- SharedAgent
    Kinds = {"analyze", "stream"}
    Classifier = TRUE
    Cap = 2
    MaxCost = 2
    Months = 2
    Calls = 2
    Process = {s1, s2}
    Scope = {tenant, null}
    Null = null
    MaxRows = 3
    Connection = {q1}
    Token <- MCToken
    NoIat = 0
    Revoker = {w1, w2}
    Life = 2
    MaxClock = 4
    Address = {i1, i2}
    Limit = 2
    WindowSecs = 2
    MaxTime = 6
    ToolName = {t1, t2}
    Version = {v1, v2}
    Gone = gone
    AgentCall = {r1, r2}
    Skill = {p1, p2}
    MaxFrames = 3
    Company = {x1}
    NoCompany = nobody
    CallName = {n1, n2}
SYMMETRY RevokerSymmetry
INVARIANTS
    KeyTableSound
    RevokedStaysOut
    WindowIsExact
    ToolsAsApproved
    SkillsStayInTheirRun
    ReadAsConfigured
    StreamsAreSafe
PROPERTIES
    MeteringSound
CHECK_DEADLOCK FALSE
