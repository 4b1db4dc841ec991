CONSTANTS
    ext = ext
    d1 = d1
    d2 = d2
    p1 = p1
    p2 = p2
    c1 = c1
    q1 = q1
    NoOwner = NoOwner
    Fingerprints = {ext}
    External = {ext}
    Devices <- MCDevices
    Applications = {}
    Partitions = {p1, p2}
    PartitionOf <- TwoPartitions
    Clients = {c1}
    MaxRequests = 3
    MaxLosses = 0
    MaxRetries = 0
    Queries = {q1}
    MaxInFlight = 2
    MaxFaults = 0
    MaxQueries = 0
    MaxRecords <- MCMaxRecords
SPECIFICATION Spec
INVARIANTS
    SequentialChangesReachAcl
CHECK_DEADLOCK FALSE
