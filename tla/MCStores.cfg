SPECIFICATION MCSpec
CONSTANTS
    Txs = {a, b}
    Counter = 0
    Items = {1, 2, 3}
    Absent = Absent
    Empty = Empty
    Never = Never
    Deltas <- MCDeltas
    MaxValue = 1
    LockAttempts = 2
    BatchSize = 1
    Ttl = 1
    MaxClock = 2
    NoUser = NoUser
    Users = {a, b}
    MaxGrants = 2
    MaxGhosts = 1
    MaxInvalidations = 1
    Processes = {a, b}
    Gone = Gone
    Names = {n1, n2}
    Required = {n1}
    Passwords = {w1, w2}
    Values = {x}
    MaxVaults = 2
SYMMETRY MCSymmetry
INVARIANTS
    KvIsSound
    CacheIsSound
    VaultIsSound
PROPERTIES
    ComputationIsCoalesced
CHECK_DEADLOCK FALSE
