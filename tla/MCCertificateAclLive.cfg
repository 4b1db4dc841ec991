CONSTANTS
    f1 = f1
    d1 = d1
    d2 = d2
    p1 = p1
    p2 = p2
    q1 = q1
    NoOwner = NoOwner
    Fingerprints <- MCFingerprints
    Devices <- MCDevices
    Applications = {}
    Partitions <- MCPartitions
    PartitionOf <- MCPartitionOf
    Queries = {q1}
    MaxInFlight = 2
    MaxFaults = 2
    MaxQueries = 0
    MaxRecords <- MCMaxRecords
SPECIFICATION AclFairSpec
PROPERTIES
    EventsConsumed
CHECK_DEADLOCK FALSE
