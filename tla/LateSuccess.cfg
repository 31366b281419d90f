SPECIFICATION ClaimsSpec
CONSTANTS
    t1 = t1
    t2 = t2
    t3 = t3
    NotOpen = NotOpen
    Threshold = 2
    Recovery = 2
    Task <- MCTask
    Attempts <- MCAttempts
PROPERTY
    OpenLastsTheTimeout
