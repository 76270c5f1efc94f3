SPECIFICATION TablesSpec
CONSTANTS
    l = l
    o = o
    s1 = s1
    s2 = s2
    s3 = s3
    j1 = j1
    j2 = j2
    k = k
    NoWorker = NoWorker
    NoKey = NoKey
    NoJob = NoJob
    Jobs = {j1, j2}
    Workers = {l}
    Keys = {k}
    PauseKeys = {"queue"}
    MaxRetries = 0
    Slots = {s1, s2}
    OwnerOf <- MCOwnerOf
    OnceWorkers = {}
    DeadLetter = {l}
SYMMETRY LoopSymmetry
INVARIANTS
    TablesAreSound
CHECK_DEADLOCK FALSE
