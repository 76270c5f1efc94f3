SPECIFICATION CronSpec
CONSTANTS
    a = a
    b = b
    NoUser = NoUser
    Users = {a, b}
    MaxGrants = 2
    MaxGhosts = 1
    Calls <- MCCalls
INVARIANTS
    CronTypeOK
PROPERTIES
    TenuresEndInOrder
    CronMakesProgress
CHECK_DEADLOCK FALSE
