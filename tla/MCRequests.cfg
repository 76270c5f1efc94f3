SPECIFICATION RequestsSpec
CONSTANTS
    a = a
    b = b
    c = c
    d = d
    Callers = {a, b, c}
    NoHolder = NoHolder
    HasRate = TRUE
    Requests = 1
    Interval = 1
    HasSlots = TRUE
    MaxConcurrent = 1
    MaxHold = 1
    HasCircuit = TRUE
    Threshold = 1
    Recovery = 1
    ProbeWindow = 2
    MaxCount = 1
    MaxBeatFailures = 1
    OperatorCalls = {"open", "closed", "reset"}
    StateTtl = 2
    MaxTime = 3
    CrowdTime = 2
    Tabs = {t1, t2}
    Servers = {s1, s2}
    Identities = {i1, i2}
    NoCookie = NoCookie
    TokenMaxAge = 1
    MaxKey = 2
    MaxSeconds = 1
SYMMETRY CallerSymmetry
INVARIANTS
    CircuitIsSound
    ConcurrencyBound
    RateBoundUpToRewind
    CsrfIsSound
CHECK_DEADLOCK FALSE
