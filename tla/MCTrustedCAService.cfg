CONSTANTS
    ext = ext
    int = int
    d1 = d1
    d2 = d2
    app = app
    p1 = p1
    ca1 = ca1
    ca2 = ca2
    c1 = c1
    c2 = c2
    NoOwner = NoOwner
    Fingerprints <- MCFingerprints
    External = {ext}
    Devices <- MCDevices
    Applications = {app}
    Partitions = {p1}
    PartitionOf <- MCPartitionOf
    Clients = {c1, c2}
    MaxRequests = 4
    MaxLosses = 1
    MaxRetries = 1
    CAs = {ca1, ca2}
    CaOf <- MCCaOf
    CaLimit = 1
    AutoRegistration = TRUE
SYMMETRY MCSymmetry
SPECIFICATION TcaSpec
INVARIANTS
    TcaTypeOK
    LogFollowsDb
    EveryOwnerAnnounced
    CaLimitOvershoot
    DependentsKeepCa
CHECK_DEADLOCK FALSE
