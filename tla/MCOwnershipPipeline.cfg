CONSTANTS
    ext = ext
    d1 = d1
    d2 = d2
    p1 = p1
    p2 = p2
    c1 = c1
    q1 = q1
    NoOwner = NoOwner
    Fingerprints = {ext}
    External = {ext}
    Devices <- MCDevices
    Applications = {}
    Partitions = {p1}
    PartitionOf <- OnePartition
    Clients = {c1}
    MaxRequests = 3
    MaxLosses = 1
    MaxRetries = 1
    Queries = {q1}
    MaxInFlight = 2
    MaxFaults = 1
    MaxQueries = 1
    MaxRecords <- MCMaxRecords
SPECIFICATION Spec
INVARIANTS
    AclMatchesDb
CHECK_DEADLOCK FALSE
