--------------------------- MODULE RetrieverSync ---------------------------
(***************************************************************************)
(* storage/time-series/influxdb/retriever: the local copy of the devices   *)
(* of a tenant.  A load, at the start and at each tick of the cron, reads  *)
(* the device manager page by page and rewrites the copy with the Kafka    *)
(* callbacks unregistered; otherwise the events of devices update it, by   *)
(* writes nobody waits for.  One tenant, which exists throughout; a load   *)
(* ends before the next tick.                                              *)
(***************************************************************************)
EXTENDS Integers, Sequences, FiniteSets

CONSTANTS
    DeviceIds,     \* in the order of the pages: a set of integers
    PageSize,
    MaxLoads,      \* loads
    MaxRestarts, MaxLost
                   \* restarts of the process, failed requests

ASSUME RetrieverAssumption ==
    /\ DeviceIds \subseteq Int /\ IsFiniteSet(DeviceIds)
    /\ PageSize \in Nat \ {0}
    /\ MaxLoads \in Nat \ {0} /\ {MaxRestarts, MaxLost} \subseteq Nat

VARIABLES
    remote,        \* devices of the device manager
    created,       \* identifiers given out
    deviceLog,     \* events published
    position,      \* events handled
    writing,       \* dispatches in progress, in order
    copied,         \* sublevel of the tenant in the local database
    listing,       \* the tenant is in TenantService.tenants
    persisted,     \* it is in the sublevel tenants
    listening,     \* registered
    load,          \* the load in progress
    loads, restarts, lostRequests,
    healed         \* a load went through since the process started (history)

copyVars == <<copied, writing>>
tenantListVars == <<listing, persisted>>
remoteVars == <<remote, created, deviceLog>>
retrieverVars == <<remoteVars, position, copyVars, tenantListVars, listening, load, loads, restarts, lostRequests, healed>>

NoLoad == [phase |-> "none", page |-> 0, read |-> {}]
NewLoad == [phase |-> "tenants", page |-> 0, read |-> {}]

RetrieverInit ==
    /\ remote = {} /\ created = {} /\ deviceLog = <<>>
    /\ position = 0 /\ copied = {} /\ writing = <<>>
    /\ listing = FALSE /\ persisted = FALSE /\ listening = FALSE
    /\ load = NewLoad /\ loads = 1 /\ restarts = 0 /\ lostRequests = 0 /\ healed = FALSE

Loses == lostRequests < MaxLost /\ lostRequests' = lostRequests + 1

-----------------------------------------------------------------------------
(* The device manager, external *)

DeviceCreated(d) ==
    /\ d \notin created /\ created' = created \cup {d} /\ remote' = remote \cup {d}
    /\ deviceLog' = Append(deviceLog, <<"create", d>>)
    /\ UNCHANGED <<position, copyVars, tenantListVars, listening, load, loads, restarts, lostRequests, healed>>

DeviceRemoved(d) ==
    /\ d \in remote /\ remote' = remote \ {d} /\ UNCHANGED created
    /\ deviceLog' = Append(deviceLog, <<"remove", d>>)
    /\ UNCHANGED <<position, copyVars, tenantListVars, listening, load, loads, restarts, lostRequests, healed>>

\* Devices from the (page * PageSize + 1)-th on, at most PageSize of them.
Rank(d) == Cardinality({e \in remote : e < d})
Page(n) == {d \in remote : Rank(d) \in (n * PageSize)..((n + 1) * PageSize - 1)}

-----------------------------------------------------------------------------
(* RetrieverConsumer: the callback acknowledges before the dispatch ends *)

HandlesEvent ==
    /\ listening /\ position < Len(deviceLog)
    /\ position' = position + 1
    /\ writing' = Append(writing, deviceLog[position + 1])
    /\ UNCHANGED <<remoteVars, copied, tenantListVars, listening, load, loads, restarts, lostRequests, healed>>

\* InputPersister.dispatch of addNewDevice or deleteDevice.
Dispatches ==
    /\ writing # <<>> /\ writing' = Tail(writing)
    /\ copied' = IF Head(writing)[1] = "create" THEN copied \cup {Head(writing)[2]}
                                               ELSE copied \ {Head(writing)[2]}
    /\ UNCHANGED <<remoteVars, position, tenantListVars, listening, load, loads, restarts, lostRequests, healed>>

-----------------------------------------------------------------------------
(* SyncLoader *)

\* Mutant: the callbacks stay.
TicksRegistered ==
    /\ load.phase = "none" /\ loads < MaxLoads
    /\ loads' = loads + 1 /\ load' = NewLoad
    /\ UNCHANGED <<remoteVars, position, copyVars, tenantListVars, listening, restarts, lostRequests, healed>>

CronTicks ==
    /\ load.phase = "none" /\ loads < MaxLoads
    /\ listening' = FALSE
    /\ loads' = loads + 1 /\ load' = NewLoad
    /\ UNCHANGED <<remoteVars, position, copyVars, tenantListVars, restarts, lostRequests, healed>>

\* requestTenants, then the sublevel is cleared; without an answer it is read instead.
LoadsTenants ==
    /\ load.phase = "tenants"
    /\ \/ listing' = TRUE /\ persisted' = FALSE
          /\ load' = [load EXCEPT !.phase = "save"] /\ UNCHANGED lostRequests
       \/ Loses /\ listing' = (listing \/ persisted)
          /\ load' = [load EXCEPT !.phase = "devices"] /\ UNCHANGED persisted
    /\ UNCHANGED <<remoteVars, position, copyVars, listening, loads, restarts, healed>>

SavesTenants ==
    /\ load.phase = "save" /\ persisted' = TRUE
    /\ load' = [load EXCEPT !.phase = "devices"]
    /\ UNCHANGED <<remoteVars, position, copyVars, listing, listening, loads, restarts, lostRequests, healed>>

\* getDevices: a page that is not full is the last; an error leaves the copy as it is.
GetsPage ==
    /\ load.phase = "devices" /\ listing
    /\ \/ /\ load' = [phase |-> IF Cardinality(Page(load.page)) = PageSize THEN "devices" ELSE "clear",
                      page |-> load.page + 1, read |-> load.read \cup Page(load.page)]
          /\ UNCHANGED lostRequests
       \/ Loses /\ load' = [load EXCEPT !.phase = "end"]
    /\ UNCHANGED <<remoteVars, position, copyVars, tenantListVars, listening, loads, restarts, healed>>

Clears ==
    /\ load.phase = "clear" /\ copied' = {}
    /\ load' = [load EXCEPT !.phase = "write"]
    /\ UNCHANGED <<remoteVars, position, writing, tenantListVars, listening, loads, restarts, lostRequests, healed>>

WritesDevice ==
    /\ load.phase = "write"
    /\ \E d \in load.read : copied' = copied \cup {d} /\ load' = [load EXCEPT !.read = @ \ {d}]
    /\ UNCHANGED <<remoteVars, position, writing, tenantListVars, listening, loads, restarts, lostRequests, healed>>

\* retrieverConsumer.init the first time, resume() afterwards, however the load went.
Resumes ==
    /\ \/ load.phase = "write" /\ load.read = {} /\ healed' = TRUE
       \/ load.phase = "end" /\ UNCHANGED healed
       \/ load.phase = "devices" /\ ~listing /\ UNCHANGED healed
    /\ load' = NoLoad /\ listening' = TRUE
    /\ UNCHANGED <<remoteVars, position, copyVars, tenantListVars, loads, restarts, lostRequests>>

\* What was acknowledged but not written is lost; offsets not committed yet come again.
RetrieverRestarts ==
    /\ restarts < MaxRestarts /\ restarts' = restarts + 1
    /\ position' \in 0..position /\ writing' = <<>>
    /\ listing' = FALSE /\ listening' = FALSE /\ load' = NewLoad /\ healed' = FALSE
    /\ UNCHANGED <<remoteVars, copied, persisted, loads, lostRequests>>

RetrieverNext ==
    \/ \E d \in DeviceIds : DeviceCreated(d) \/ DeviceRemoved(d)
    \/ HandlesEvent \/ Dispatches
    \/ CronTicks \/ LoadsTenants \/ SavesTenants \/ GetsPage \/ Clears \/ WritesDevice \/ Resumes \/ RetrieverRestarts

RetrieverSpec == RetrieverInit /\ [][RetrieverNext]_retrieverVars

-----------------------------------------------------------------------------
RetrieverTypeOK ==
    /\ remote \subseteq created /\ created \subseteq DeviceIds /\ copied \subseteq created
    /\ {deviceLog, writing} \subseteq Seq({"create", "remove"} \X DeviceIds)
    /\ position \in 0..Len(deviceLog)
    /\ {listing, persisted, listening, healed} \subseteq BOOLEAN
    /\ load \in [phase : {"none", "tenants", "save", "devices", "clear", "write", "end"},
                 page : Nat, read : SUBSET DeviceIds]
    /\ loads \in 0..MaxLoads /\ restarts \in 0..MaxRestarts /\ lostRequests \in 0..MaxLost

\* Once a load went through and the events are handled and written, no device removed from the device
\* manager is left in the copy, wherever its removal fell: before a load, between two pages, while the
\* copy was rewritten, or before a restart (SyncLoader.js, RetrieverConsumer.js).
RemovedDevicesForgotten ==
    (healed /\ load.phase = "none" /\ position = Len(deviceLog) /\ writing = <<>>) => copied \subseteq remote
=============================================================================
