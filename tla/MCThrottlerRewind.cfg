SPECIFICATION MCSpec
CONSTANTS
    a = a
    b = b
    c = c
    d = d
    CrowdTime = 3
    Callers = {a, b, c, d}
    NoHolder = NoHolder
    HasRate = TRUE
    Requests = 1
    Interval = 1
    HasSlots = FALSE
    MaxConcurrent = 1
    MaxHold = 1
    HasCircuit = FALSE
    Threshold = 1
    Recovery = 1
    ProbeWindow = 1
    MaxCount = 1
    MaxBeatFailures = 2
    OperatorCalls = {}
    StateTtl = 3
    MaxTime = 3
SYMMETRY CallerSymmetry
INVARIANTS
    RateBound
CHECK_DEADLOCK FALSE
