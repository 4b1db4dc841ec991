SPECIFICATION ServicesSpec
CONSTANTS
    Devices = {d1, d2}
    Requests = {q1}
    NoDevice = NoDevice
    MaxChanges = 2
    MaxFaults = 1
    OwnerDevices = {d1, d2}
    Certificates = {c1, c2}
    NoOwner = NoOwner
    MaxDeviceEvents = 4
    Points = {p1, p2}
    Handlers = {h1, h2}
    MaxTenantEvents = 2
    MaxStorerFaults = 2
    Uploads = {u1, u2}
    NoUpload = NoUpload
    Removers = {r1}
    MaxTenancies = 2
    MaxFileFaults = 1
    MaxKeys = 3
    MaxVersions = 2
    MaxTicks = 2
    MaxCertFaults = 1
    BatchDevices = {d1}
    NoBatchDevice = NoBatchDevice
    Labels = {1, 2}
    Templates = {t1}
    Creations = {b1, b2}
    Removals = {x1, x2}
    MaxMade = 2
    MaxSends = 1
    Reports = {r1, r2}
    NoReport = NoReport
    Workers = {w1, w2}
    MaxEvents = 2
    MaxReportFaults = 1
    DeviceIds = {1, 2}
    PageSize = 1
    MaxLoads = 2
    MaxRestarts = 1
    MaxLost = 1
    FtpFiles = {f1, f2, f3}
    Connections = 2
    Retries = 1
    MaxFtpFaults = 3
    Partitions = {k1, k2}
    MaxOffset = 2
    MaxUndelivered = 2
    MaxSessions = 3
    MaxRefreshes = 2
    Organizations = {"tenant1", "tenant2"}
    Servers = {server1, server2}
    OrgOf <- MCOrgOf
    MaxTold = 2
    MaxOutputFaults = 2
    Serials = {s1}
    NoSerial = NoSerial
    CaRequests = {i1, i2, i3}
    ForceCRLRenew = FALSE
    MaxEjbcaFaults = 1
    Attributes = {a1, a2}
    Readers = {reader1}
    FlexQueries = {query1, query2}
    MaxTime = 3
    MaxLimit = 2
    MaxLate = 1
    Realms = {master, tenant1, tenant2}
    Master = master
    ValidRealms = {master, tenant1}
    Sessions = {session1, session2}
    NoRealm = NoRealm
    NoRep = NoRep
    SmtpConfigured = FALSE
    MaxTransactions = 5
    MaxRealmFaults = 2
    Subscribers = {subscriber1, subscriber2}
    Names <- MCNames
    Parameters <- MCParameters
    FieldLists <- MCFieldLists
    Wheres <- MCWheres
    Payloads <- MCPayloads
    TextOrder <- MCTextOrder
    PiecesOf <- MCPiecesOf
    NumberOf <- MCNumberOf
    NumberText <- MCNumberText
    Within <- MCWithin
    NaN = NaN
    NoMessage = NoMessage
INVARIANTS ServicesTypeOK DecisionsAreSound OwnersExisted PointsAreKept BucketsAreSound FilesFollowProcess RemovalsAreFinal ReportsHaveTheirFile RemovedDevicesForgotten ConnectionsAreExclusive SlotsAreReturned MetricsReachTheirOrganization AuthorityIsInStep PagesCoverTheRange RealmsAreAsAnnounced SharingIsInvisible
PROPERTIES StoresAtomically
CHECK_DEADLOCK FALSE
VIEW MCView
