CONSTANTS
    ext = ext
    int = int
    d1 = d1
    d2 = d2
    app = app
    p1 = p1
    ca1 = ca1
    ca2 = ca2
    c1 = c1
    c2 = c2
    NoOwner = NoOwner
    Fingerprints <- MCFingerprints
    External = {ext}
    Devices <- MCDevices
    Applications = {app}
    Partitions = {p1}
    PartitionOf <- MCPartitionOf
    Clients = {c1, c2}
    MaxRequests = 3
    MaxLosses = 0
    MaxRetries = 0
    CAs = {ca1, ca2}
    CaOf <- MCCaOf
    CaLimit = 1
    AutoRegistration = TRUE
SPECIFICATION TcaSpec
INVARIANTS
    RemovalAnnounced
CHECK_DEADLOCK FALSE
