SPECIFICATION RecoverySpec
CONSTANTS
    Publications = {m1, m2, m3}
    MaxQueue = 1
    MaxBreaks = 2
    Actuations = {a1, a2}
    NoConsumer = NoConsumer
    MaxK2vBreaks = 3
    Clients = {c1, b1}
    DojotUsers = {c1}
    MaxSessions = 4
    Things = {t1}
    Posts = {p1}
    Syncs = {s1, s2}
    MaxDeletions = 1
    MaxErrors = 1
    MaxCallbacks = 2
INVARIANTS RecoveryTypeOK ProducedOnce ConsumerFollowsConnection TimersFollowSessions
PROPERTIES RunningBridgeRecovers RunningActuationsPublished DevicesAreDisconnected CredentialsFollowDevices
CHECK_DEADLOCK FALSE
