SPECIFICATION CertSpec
CONSTANTS
    MaxKeys = 3
    MaxVersions = 1
    MaxTicks = 1
    MaxCertFaults = 0
INVARIANTS KeyGoesWithCertificate
CHECK_DEADLOCK FALSE
