SPECIFICATION QueueSpec
CONSTANTS
    l = l
    o = o
    s1 = s1
    s2 = s2
    s3 = s3
    j1 = j1
    j2 = j2
    k = k
    NoWorker = NoWorker
    NoKey = NoKey
    NoJob = NoJob
    Jobs = {j1}
    Workers = {l}
    Keys = {}
    PauseKeys = {}
    MaxRetries = 1
    Slots = {s1, s2}
    OwnerOf <- MCOwnerOf
    OnceWorkers = {}
    DeadLetter = {l}
INVARIANTS
    DisplacedTaskIsLost
CHECK_DEADLOCK FALSE
