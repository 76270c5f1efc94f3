SPECIFICATION MCSpec
CONSTANTS
    Procs = {p1, p2}
    Ghost = Ghost
    RetryLimit = 3
    MaxCrashes = 1
    Callers = {c1, c2}
    Nobody = Nobody
    Slots = {s1}
    MaxHoldTtl = 1
    MaxAcquires = 2
    MaxResets = 1
    MinBackoff = 1
    MaxDuration = 4
INVARIANTS
    FileIsExclusive
    SemaphoreIsSound
    RuntimeIsSound
PROPERTIES
    NobodyWaitsForever
CHECK_DEADLOCK FALSE
