CONSTANTS
    s1 = s1
    s2 = s2
    a = a
    b = b
    ta = ta
    tb = tb
    k1 = k1
    r1 = r1
    Sessions <- MCSessions
    Topics <- MCTopics
    Tenants = {a, b}
    TenantOf <- MCTenantOf
    Tickets <- MCTickets
    HolderOf <- MCHolderOf
    Rules = {r1}
    MaxFaults = 2
    MaxIssues = 2
SPECIFICATION KwFairSpec
INVARIANTS
    TicketsAreSingleUse
    SharingFollowsSessions
    TenantIsolation
    NoStaleExpiration
PROPERTIES
    LifetimeWithoutOutage
CHECK_DEADLOCK FALSE
