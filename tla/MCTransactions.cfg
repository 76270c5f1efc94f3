SPECIFICATION MCSpec
CONSTANTS
    Jobs = {"j1", "j2"}
    Workers = {"w1", "w2"}
    NoWorker = "none"
    Keys = {"k"}
    NoKey = "nokey"
    PauseKeys = {}
    MaxRetries = 0
    WorkerSessions = {"a1", "a2", "b", "m"}
    WorkerOf <- MCWorkerOf
    Operators = {"o"}
    Producers = {"p1", "p2", "m"}
    NoJob = "nojob"
    MaxCalls <- MCMaxCalls
    MaxAttempts = 2
    Borrowers = {s1, s2}
    Boots = {b1, b2}
    Components = {k, q}
    Preparable = {q}
    MaxEpoch = 2
    MaxTries = 2
    Migrators = {m1, m2}
    Releases <- MCReleases
    None = None
    Broken = Broken
    MaxMigrations = 2
INVARIANTS
    TransactionsAreSound
    AnswersAreTrue
    BootstrapIsSound
    WorkIsUnderSupportedEpoch
    LedgerIsSound
PROPERTIES
    SchemaNeverGoesBack
CHECK_DEADLOCK FALSE
