SPECIFICATION FileSpec
CONSTANTS
    Procs = {p1, p2}
    Ghost = Ghost
    RetryLimit = 3
    MaxCrashes = 0
INVARIANTS ExclusiveOwnership
