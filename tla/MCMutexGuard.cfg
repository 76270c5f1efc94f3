SPECIFICATION FairGuardSpec
CONSTANTS
    g = g
    m = m
    s1 = s1
    Clients <- MCClients
    Holders <- MCClients
    HolderOf <- MCHolderOf
    Duration <- MCDuration
    Slots = {s1}
    MaxTime = 1
    MaxToken = 4
    MaxFence = 2
    Guarded = {g}
    MaxFailures = 2
PROPERTIES
    GuardWindsDown
    LossIsNoticed
CHECK_DEADLOCK FALSE
