CONSTANTS
    s1 = s1
    s2 = s2
    a = a
    b = b
    ta = ta
    tb = tb
    k1 = k1
    r1 = r1
    Sessions <- MCSessions
    Topics <- MCTopics
    Tenants = {a, b}
    TenantOf <- MCTenantOf
    Tickets <- MCTickets
    HolderOf <- MCHolderOf
    Rules = {r1}
    MaxFaults = 1
    MaxIssues = 1
SPECIFICATION KwFairSpec
PROPERTIES
    LifetimeIsLimited
CHECK_DEADLOCK FALSE
