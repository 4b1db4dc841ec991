------------------------------ MODULE HttpAgent ------------------------------
(***************************************************************************)
(* connector/http-agent: a device posts a message, the agent finds out     *)
(* whose it is from a certificate or a password, with a cache in Redis in  *)
(* front of the service that knows, asks the device manager whether the    *)
(* device may send, and produces to Kafka.  Events of the device manager   *)
(* clear the cache and events of tenants open and close sessions.          *)
(* The key of a request is the certificate's common name, its fingerprint, *)
(* or a user name, by the mode the agent is configured with; a key is      *)
(* called after the device it is made for.                                 *)
(***************************************************************************)
EXTENDS Naturals, FiniteSets

CONSTANTS
    Devices, Requests,
    NoDevice,       \* nobody
    MaxChanges,     \* changes of devices, credentials and tenants
    MaxFaults       \* failures of Redis, of a service or of Kafka

ASSUME HttpAgentAssumption ==
    /\ NoDevice \notin Devices
    /\ {"none", "unknown"} \cap Devices = {}      \* what else an entry of the cache is
    /\ MaxChanges \in Nat /\ MaxFaults \in Nat

VARIABLES
    mode,       \* security.authorization.mode
    device,     \* device manager: state of each device
    holder,     \* certificate-acl or basic authentication: who a key belongs to
    realm,      \* Keycloak: whether the tenant of the devices exists
    known,      \* TenantService.tenants: number of its entries in the list
    starting,   \* its sessions being started by TenantService.create
    removals,   \* removal events being handled: device -> keys yet to delete
    cache,      \* Redis
    request,    \* requests being handled
    sent,       \* messages produced (history)
    excused,    \* keys that something happened to (history)
    changes, agentFaults

worldVars == <<mode, device, holder, realm>>
tenantVars == <<known, starting>>
agentVars == <<worldVars, tenantVars, removals, cache, request, sent, excused, changes, agentFaults>>

Modes == {"cn", "fingerprint", "basic-auth"}
Entries == Devices \cup {"none", "unknown"}
NoRequest == [phase |-> "idle", key |-> NoDevice, dev |-> NoDevice, seen |-> FALSE]

\* Who the asked service says the key belongs to: in cn mode the device manager is asked
\* for the device the common name spells.
Authority(k) == IF mode = "cn" THEN (IF device[k] = "absent" THEN NoDevice ELSE k) ELSE holder[k]

Sound(k) == holder[k] = k /\ device[k] = "enabled" /\ known > 0

HttpInit ==
    /\ mode \in Modes
    /\ device \in [Devices -> {"absent", "enabled"}]
    /\ holder = [k \in Devices |-> k]
    /\ realm \in BOOLEAN
    /\ known = IF realm THEN 1 ELSE 0      \* loadTenants
    /\ starting = 0
    /\ removals = [d \in Devices |-> {}]
    /\ cache = [k \in Devices |-> "none"]
    /\ request = [r \in Requests |-> NoRequest]
    /\ sent = {}
    /\ excused = {k \in Devices : ~Sound(k)}
    /\ changes = 0 /\ agentFaults = 0

-----------------------------------------------------------------------------
(* The world around the agent *)

Changed == changes < MaxChanges /\ changes' = changes + 1

\* The device manager creates, enables, disables or removes a device.  A removal is announced.
DeviceChanges(d) ==
    /\ Changed
    /\ \E s \in {"absent", "enabled", "disabled"} \ {device[d]} :
        /\ device' = [device EXCEPT ![d] = s]
        /\ removals' = IF s = "absent" THEN [removals EXCEPT ![d] = {"tenant@id", "tenant:id"}] ELSE removals
        /\ request' = [r \in Requests |->
             IF request[r].dev = d /\ s = "enabled" THEN [request[r] EXCEPT !.seen = TRUE] ELSE request[r]]
    /\ excused' = excused \cup {k \in Devices : d \in {k, holder[k]}}
    /\ UNCHANGED <<mode, holder, realm, tenantVars, cache, sent, agentFaults>>

\* A certificate passes to another device, a credential is removed or given back.
HolderChanges(k) ==
    /\ Changed
    /\ mode # "cn"
    /\ \E h \in (IF mode = "fingerprint" THEN Devices ELSE {k}) \cup {NoDevice} :
        h # holder[k] /\ holder' = [holder EXCEPT ![k] = h]
    /\ excused' = excused \cup {k}
    /\ UNCHANGED <<mode, device, realm, tenantVars, removals, cache, request, sent, agentFaults>>

-----------------------------------------------------------------------------
(* TenantService and the tenancy callback *)

\* CREATE: a tenant that is not in the list gets a session, which is awaited.
TenantCreated ==
    /\ Changed
    /\ realm' = TRUE
    /\ starting' = IF known = 0 THEN starting + 1 ELSE starting
    /\ UNCHANGED <<mode, device, holder, known, removals, cache, request, sent, excused, agentFaults>>

KeycloakSessionStarts ==
    /\ starting > 0
    /\ starting' = starting - 1
    /\ known' = known + 1
    /\ UNCHANGED <<worldVars, removals, cache, request, sent, excused, changes, agentFaults>>

\* DELETE: the callback passes the object {id, signatureKey}, which equals no
\* tenant's id, so remove() finds nothing to remove.
TenantDeleted ==
    /\ Changed
    /\ realm
    /\ realm' = FALSE
    /\ UNCHANGED <<mode, device, holder, tenantVars, removals, cache, request, sent, excused, agentFaults>>

-----------------------------------------------------------------------------
(* The device callback: two awaited deletions, an error ends it *)

DeletesKey(d) ==
    LET key == IF "tenant@id" \in removals[d] THEN "tenant@id" ELSE "tenant:id" IN
    /\ removals[d] # {}
    /\ removals' = [removals EXCEPT ![d] = @ \ {key}]
    /\ cache' = IF \/ mode = "basic-auth" /\ key = "tenant@id"
                   \/ mode = "cn" /\ key = "tenant:id"
                THEN [cache EXCEPT ![d] = "none"] ELSE cache
    /\ UNCHANGED <<worldVars, tenantVars, request, sent, excused, changes, agentFaults>>

Fault == agentFaults < MaxFaults /\ agentFaults' = agentFaults + 1

DeletionFails(d) ==
    /\ Fault
    /\ removals[d] # {}
    /\ removals' = [removals EXCEPT ![d] = {}]
    /\ excused' = excused \cup {d}
    /\ UNCHANGED <<worldVars, tenantVars, cache, request, sent, changes>>

\* The time to live of the entry ends.
EntryExpires(k) ==
    /\ cache[k] # "none"
    /\ cache' = [cache EXCEPT ![k] = "none"]
    /\ UNCHANGED <<worldVars, tenantVars, removals, request, sent, excused, changes, agentFaults>>

-----------------------------------------------------------------------------
(* A request *)

\* r goes on to the given phase as device d; only devices that send count as seen.
Goes(r, phase, d) ==
    request' = [request EXCEPT ![r].phase = phase, ![r].dev = d,
                               ![r].seen = d \in Devices /\ device[d] = "enabled"]

Begin(r, k) ==
    /\ request[r].phase \in {"idle", "refused", "done"}
    /\ request' = [request EXCEPT ![r] = [NoRequest EXCEPT !.phase = "cache", !.key = k]]
    /\ UNCHANGED <<worldVars, tenantVars, removals, cache, sent, excused, changes, agentFaults>>

CacheAnswers(r) ==
    LET k == request[r].key IN
    /\ request[r].phase = "cache"
    /\ \/ cache[k] = "none" /\ Goes(r, "ask", NoDevice)
       \/ cache[k] = "unknown" /\ Goes(r, "refused", NoDevice)
       \/ cache[k] \in Devices /\ Goes(r, "validate", cache[k])
    /\ UNCHANGED <<worldVars, tenantVars, removals, cache, sent, excused, changes, agentFaults>>

\* The service answers; with no tenant in the list nothing is asked, which is an error.
AuthorityAnswers(r) ==
    LET k == request[r].key IN
    /\ request[r].phase = "ask"
    /\ IF mode # "fingerprint" /\ known = 0
       THEN Goes(r, "answered", NoDevice)
       ELSE Goes(r, "answered", Authority(k))
    /\ UNCHANGED <<worldVars, tenantVars, removals, cache, sent, excused, changes, agentFaults>>

\* The answer is cached; only cn mode caches a refusal.
Concludes(r) ==
    LET k == request[r].key
        d == request[r].dev IN
    /\ request[r].phase = "answered"
    /\ IF d = NoDevice
       THEN /\ cache' = IF mode = "cn" THEN [cache EXCEPT ![k] = "unknown"] ELSE cache
            /\ Goes(r, "refused", NoDevice)
       ELSE /\ cache' = [cache EXCEPT ![k] = d]
            /\ request' = [request EXCEPT ![r].phase = "validate"]
    /\ UNCHANGED <<worldVars, tenantVars, removals, sent, excused, changes, agentFaults>>

\* Redis or the service rejects or times out while the key is resolved.  In cn
\* mode the error marks the device as unknown, if Redis takes it.
IdentificationFails(r) ==
    LET k == request[r].key IN
    /\ Fault
    /\ request[r].phase \in {"cache", "ask", "answered"}
    /\ Goes(r, "refused", NoDevice)
    /\ \/ mode = "cn" /\ cache' = [cache EXCEPT ![k] = "unknown"]
       \/ UNCHANGED cache
    /\ excused' = excused \cup {k}
    /\ UNCHANGED <<worldVars, tenantVars, removals, sent, changes>>

\* Mutant: a device the cache knows is not looked up again.
ValidatesAbsentOnly(r) ==
    LET d == request[r].dev IN
    /\ request[r].phase = "validate"
    /\ request' = [request EXCEPT ![r].phase =
           IF cache[request[r].key] = d \/ device[d] = "enabled" THEN "send" ELSE "refused"]
    /\ UNCHANGED <<worldVars, tenantVars, removals, cache, sent, excused, changes, agentFaults>>

\* deviceValidatorInterceptor: every request asks the device manager.
Validates(r) ==
    LET d == request[r].dev IN
    /\ request[r].phase = "validate"
    /\ request' = [request EXCEPT ![r].phase =
           IF known > 0 /\ device[d] = "enabled" THEN "send" ELSE "refused"]
    /\ UNCHANGED <<worldVars, tenantVars, removals, cache, sent, excused, changes, agentFaults>>

Sends(r) ==
    /\ request[r].phase = "send"
    /\ request' = [request EXCEPT ![r] = [NoRequest EXCEPT !.phase = "done"]]
    /\ sent' = sent \cup {[dev |-> request[r].dev, seen |-> request[r].seen]}
    /\ UNCHANGED <<worldVars, tenantVars, removals, cache, excused, changes, agentFaults>>

\* The device manager or Kafka does not answer: 424.
SendingFails(r) ==
    /\ Fault
    /\ request[r].phase \in {"validate", "send"}
    /\ Goes(r, "refused", NoDevice)
    /\ excused' = excused \cup {request[r].key}
    /\ UNCHANGED <<worldVars, tenantVars, removals, cache, sent, changes>>

Handles(r) ==
    CacheAnswers(r) \/ AuthorityAnswers(r) \/ Concludes(r) \/ Validates(r) \/ Sends(r)

HttpNext ==
    \/ \E d \in Devices : DeviceChanges(d) \/ HolderChanges(d) \/ EntryExpires(d)
    \/ \E d \in Devices : DeletesKey(d) \/ DeletionFails(d)
    \/ TenantCreated \/ KeycloakSessionStarts \/ TenantDeleted
    \/ \E r \in Requests, k \in Devices : Begin(r, k)
    \/ \E r \in Requests : Handles(r) \/ IdentificationFails(r) \/ SendingFails(r)

HttpSpec == HttpInit /\ [][HttpNext]_agentVars

-----------------------------------------------------------------------------
HttpTypeOK ==
    /\ mode \in Modes /\ realm \in BOOLEAN /\ known \in Nat /\ starting \in Nat
    /\ device \in [Devices -> {"absent", "enabled", "disabled"}]
    /\ holder \in [Devices -> Devices \cup {NoDevice}]
    /\ removals \in [Devices -> SUBSET {"tenant@id", "tenant:id"}]
    /\ cache \in [Devices -> Entries]
    /\ \A r \in Requests :
        /\ request[r].phase \in {"idle", "cache", "ask", "answered", "validate", "send", "refused", "done"}
        /\ request[r].phase \in {"validate", "send"} => request[r].dev \in Devices
        /\ request[r].phase \notin {"idle", "done"} => request[r].key \in Devices

\* However old the entry of the cache that identified it, a device sends only
\* if the device manager had it enabled at some time after the request knew
\* it (deviceValidatorInterceptor behind identificationService).
SentWhileEnabled == \A m \in sent : m.seen

\* A request is refused for a cause: something failed on the way, or the
\* device, its credential or its tenant was not as it should be at some time.
\* Nothing another request or another device does makes the agent refuse.
RefusedForCause == \A r \in Requests : request[r].phase = "refused" => request[r].key \in excused

\* The agent's decision on a request is right on both sides.
DecisionsAreSound == SentWhileEnabled /\ RefusedForCause

=============================================================================
