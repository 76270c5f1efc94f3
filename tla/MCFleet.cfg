SPECIFICATION MCSpec
CONSTANTS
    c = c
    g = g
    m = m
    h = h
    a = a
    b = b
    Clients <- MCClients
    Holders <- MCHolders
    HolderOf <- MCHolderOf
    Duration <- MCDuration
    Slots = {a, b}
    MaxTime = 2
    MaxToken = 3
    MaxFence = 2
    GuardTokens = 2
    GuardTime = 1
    Guarded = {g}
    MaxFailures = 2
    NoUser = NoUser
    Users = {a, b}
    MaxGrants = 3
    MaxGhosts = 1
    MaxResets = 1
    NoPublisher = NoPublisher
    Publishers = {a, b}
    Pollers = {a, b}
    PollLimit = 1
    MaxSequence = 2
    MaxOperator = 1
SYMMETRY MCSymmetry
INVARIANTS
    TypeOK
    LocalExpiryIsSafe
    FencesAreUnique
    GuardIsSound
    OnceIsSound
    TopicIsSound
PROPERTIES
    LiveLeaseIsNotStolen
    ImplementsFencedLock
    RunsAreFenced
    CursorIsKept
CHECK_DEADLOCK FALSE
