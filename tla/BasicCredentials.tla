--------------------------- MODULE BasicCredentials ---------------------------
(***************************************************************************)
(* iam/device-basic-authentication: credentials of the devices of a        *)
(* tenant in MongoDB.  They are written by HTTP requests, removed by       *)
(* events on devices and tenants, and compared with the device manager by  *)
(* a cron job that suspends the consumption of events while it runs.       *)
(* The records of one tenant are modelled; credentials of two tenants      *)
(* share nothing but the loop of the synchronisation.                      *)
(***************************************************************************)
EXTENDS Naturals, FiniteSets

CONSTANTS
    Things,         \* some of the devices of the tenant
    Posts,          \* concurrent POST requests for credentials
    Syncs,          \* concurrent runs of the synchronisation
    MaxDeletions,   \* deletions of the tenant
    MaxCallbacks,   \* registrations overlapping runs leave behind
    MaxErrors       \* failed calls to Keycloak or the device manager

ASSUME BasicCredentialsAssumption ==
    MaxDeletions \in Nat /\ MaxErrors \in Nat /\ MaxCallbacks \in Nat \ {0}

ASSUME RequestsAreFinite == IsFiniteSet(Posts) /\ IsFiniteSet(Syncs)

VARIABLES
    thing,          \* device manager: "new", "present", "gone"
    bare,           \* it lists devices in an array, and not in an object beside a count of the pages
    cut,            \* an answer had no room for every device (history)
    tenantThere,    \* Keycloak has the tenant
    deletions, errors,
    credentials,    \* collection of credentials: the devices that have one
    records,        \* collection of tenants: number of records of the tenant
    listed,         \* TenantService.tenants names the tenant
    served,         \* the array the HTTP interceptor was given names it
    aliased,        \* both are still the same array
    opening,        \* sessions TenantService.create awaits
    callbacks,      \* registrations of the pair of Kafka callbacks
    hasIds,         \* idCallbackTenant and idCallbackDeviceManager are set
    wipes,          \* tenant callbacks at deleteMany and at deleteOne
    post, sync

mongoVars == <<credentials, records>>
listVars == <<listed, served, aliased, opening>>
consumerVars == <<callbacks, hasIds, wipes>>
answerVars == <<bare, cut>>
outside == <<thing, answerVars, tenantThere, deletions, errors>>
basicVars == <<outside, mongoVars, listVars, consumerVars, post, sync>>

Ended == [phase |-> "ended", todo |-> {}]

\* The first synchronisation has run and the server got the list it left.
BasicInit ==
    /\ thing \in [Things -> {"new", "present"}]
    /\ bare \in BOOLEAN /\ cut = FALSE
    /\ tenantThere \in BOOLEAN
    /\ deletions = 0 /\ errors = 0
    /\ credentials = {} /\ records = 0
    /\ listed = tenantThere /\ served = tenantThere /\ aliased = TRUE
    /\ opening = 0
    /\ callbacks = 1 /\ hasIds = TRUE
    /\ wipes = [deleteMany |-> 0, deleteOne |-> 0]
    /\ post = [p \in Posts |-> [phase |-> "ended", dev |-> {}]]
    /\ sync = [s \in Syncs |-> Ended]

-----------------------------------------------------------------------------
(* Keycloak and the device manager, which make the events *)

ThingChanges(d) ==
    /\ \/ thing[d] = "new" /\ thing' = [thing EXCEPT ![d] = "present"]
       \/ thing[d] = "present" /\ thing' = [thing EXCEPT ![d] = "gone"]
    /\ UNCHANGED <<answerVars, tenantThere, deletions, errors, mongoVars, listVars, consumerVars, post, sync>>

TenantChanges ==
    /\ tenantThere => deletions < MaxDeletions
    /\ tenantThere' = ~tenantThere
    /\ deletions' = IF tenantThere THEN deletions + 1 ELSE deletions
    /\ UNCHANGED <<thing, answerVars, errors, mongoVars, listVars, consumerVars, post, sync>>

-----------------------------------------------------------------------------
(* The list of tenants *)

\* push() appends to the array the interceptor holds only while it is the same.
Push == listed' = TRUE /\ served' = (served \/ aliased) /\ UNCHANGED aliased
\* filter() and a reload make a new array; the interceptor keeps the old one.
Replace(there) == listed' = there /\ aliased' = FALSE /\ UNCHANGED served

-----------------------------------------------------------------------------
(* Callbacks.  Neither acknowledges, so every event of the past may be     *)
(* delivered again after a resume; handlers of two events interleave.      *)

\* 'remove' of a device: delete its credential.
OnThingRemoved(d) ==
    /\ callbacks > 0
    /\ thing[d] = "gone"
    /\ d \in credentials
    /\ credentials' = credentials \ {d}
    /\ UNCHANGED <<outside, records, listVars, consumerVars, post, sync>>

OnTenantCreated ==
    /\ callbacks > 0
    /\ tenantThere /\ ~listed
    /\ opening = 0
    /\ opening' = opening + 1
    /\ UNCHANGED <<outside, mongoVars, listed, served, aliased, consumerVars, post, sync>>

SessionOpens ==
    /\ opening > 0
    /\ opening' = opening - 1
    /\ Push
    /\ UNCHANGED <<outside, mongoVars, consumerVars, post, sync>>

\* DELETE: the tenant leaves the list at once, its records in two awaited steps.
OnTenantDeleted ==
    /\ callbacks > 0
    /\ deletions > 0
    /\ wipes = [deleteMany |-> 0, deleteOne |-> 0]
    /\ IF listed THEN Replace(FALSE) ELSE UNCHANGED <<listed, served, aliased>>
    /\ wipes' = [wipes EXCEPT !.deleteMany = @ + 1]
    /\ UNCHANGED <<outside, mongoVars, opening, callbacks, hasIds, post, sync>>

DeleteMany == credentials' = {} /\ UNCHANGED records
DeleteOne == records' = (IF records > 0 THEN records - 1 ELSE 0) /\ UNCHANGED credentials

Wipe ==
    /\ \/ /\ wipes.deleteMany > 0
          /\ DeleteMany
          /\ wipes' = [deleteMany |-> wipes.deleteMany - 1, deleteOne |-> wipes.deleteOne + 1]
       \/ /\ wipes.deleteOne > 0
          /\ DeleteOne
          /\ wipes' = [wipes EXCEPT !.deleteOne = @ - 1]
    /\ UNCHANGED <<outside, listVars, callbacks, hasIds, post, sync>>

-----------------------------------------------------------------------------
(* POST /devices/:deviceId/basic-credentials *)

At(p, phase) == post[p].phase = phase
To(p, phase) == post' = [post EXCEPT ![p].phase = phase]

PostArrives(p, d) ==
    /\ At(p, "ended")
    /\ served
    /\ post' = [post EXCEPT ![p] = [phase |-> "validate", dev |-> {d}]]
    /\ UNCHANGED <<outside, mongoVars, listVars, consumerVars, sync>>

\* deviceValidation asks the device manager and passes or refuses.
PostValidated(p) ==
    /\ At(p, "validate")
    /\ To(p, IF \A d \in post[p].dev : thing[d] = "present" THEN "findTenant" ELSE "ended")
    /\ UNCHANGED <<outside, mongoVars, listVars, consumerVars, sync>>

PostFindsTenant(p) ==
    /\ At(p, "findTenant")
    /\ To(p, IF records = 0 THEN "createTenant" ELSE "upsert")
    /\ UNCHANGED <<outside, mongoVars, listVars, consumerVars, sync>>

PostCreatesTenant(p) ==
    /\ At(p, "createTenant")
    /\ records' = records + 1
    /\ To(p, "upsert")
    /\ UNCHANGED <<outside, credentials, listVars, consumerVars, sync>>

\* The credential is there whether or not the message behind it can be sent.
PostUpserts(p) ==
    /\ At(p, "upsert")
    /\ credentials' = credentials \cup post[p].dev
    /\ post' = [post EXCEPT ![p] = [phase |-> "ended", dev |-> {}]]
    /\ UNCHANGED <<outside, records, listVars, consumerVars, sync>>

-----------------------------------------------------------------------------
(* Synchronisation.  Cron does not wait for the run before. *)

Goto(s, phase, todo) == sync' = [sync EXCEPT ![s] = [phase |-> phase, todo |-> todo]]
Finally(s) ==
    /\ sync' = [sync EXCEPT ![s] = Ended]
    /\ callbacks' = callbacks + 1
    /\ hasIds' = TRUE
    /\ UNCHANGED wipes

\* unregisterCallbacks() knows only the last registration.
SyncBegins(s) ==
    /\ sync[s] = Ended
    /\ callbacks' = IF hasIds THEN callbacks - 1 ELSE callbacks
    /\ callbacks' + Cardinality({x \in Syncs : sync[x] # Ended}) < MaxCallbacks
    /\ hasIds' = FALSE
    /\ Goto(s, "findAll", {})
    /\ UNCHANGED <<outside, mongoVars, listVars, wipes, post>>

SyncFindsRecords(s) ==
    /\ sync[s].phase = "findAll"
    /\ Goto(s, IF records > 0 THEN "loadTenants" ELSE "loadOnly", {})
    /\ UNCHANGED <<outside, mongoVars, listVars, consumerVars, post>>

SyncLoadsTenants(s) ==
    /\ sync[s].phase \in {"loadTenants", "loadOnly"}
    /\ Replace(tenantThere)
    /\ IF sync[s].phase = "loadOnly"
       THEN Finally(s)
       ELSE /\ Goto(s, IF tenantThere THEN "findDevices" ELSE "deleteMany", {})
            /\ UNCHANGED consumerVars
    /\ UNCHANGED <<outside, mongoVars, opening, post>>

SyncFindsCredentials(s) ==
    /\ sync[s].phase = "findDevices"
    /\ Goto(s, "getDevices", credentials)
    /\ UNCHANGED <<outside, mongoVars, listVars, consumerVars, post>>

Present == {d \in Things : thing[d] = "present"}
\* The device manager, external: an answer without all devices has any of these.
Answers == SUBSET Present

\* Mutant: an empty answer counts as no answer.
SyncGetsSomeDevices(s) ==
    /\ sync[s].phase = "getDevices" /\ bare
    /\ \E answer \in Answers :
        /\ cut' = (cut \/ answer # Present)
        /\ Goto(s, "remove", {d \in sync[s].todo : d \notin answer /\ answer # {}})
    /\ UNCHANGED <<thing, bare, tenantThere, deletions, errors, mongoVars, listVars, consumerVars, post>>

\* One GET, whose answer is taken for every device there is.
SyncGetsDevices(s) ==
    /\ sync[s].phase = "getDevices" /\ bare
    /\ \E answer \in Answers :
        /\ cut' = (cut \/ answer # Present)
        /\ Goto(s, "remove", sync[s].todo \ answer)
    /\ UNCHANGED <<thing, bare, tenantThere, deletions, errors, mongoVars, listVars, consumerVars, post>>

\* devices.find is no function of an object: the error is logged, and nothing is removed.
SyncCannotFind(s) ==
    /\ sync[s].phase = "getDevices" /\ ~bare
    /\ Finally(s)
    /\ UNCHANGED <<outside, mongoVars, listVars, post>>

SyncRemoves(s) ==
    /\ sync[s].phase = "remove"
    /\ IF sync[s].todo = {}
       THEN Finally(s) /\ UNCHANGED credentials
       ELSE \E d \in sync[s].todo :
            /\ credentials' = credentials \ {d}
            /\ Goto(s, "remove", sync[s].todo \ {d})
            /\ UNCHANGED consumerVars
    /\ UNCHANGED <<outside, records, listVars, post>>

\* A tenant that Keycloak does not have: removeAllFromTenant.
SyncWipes(s) ==
    /\ \/ sync[s].phase = "deleteMany" /\ DeleteMany /\ Goto(s, "deleteOne", {}) /\ UNCHANGED consumerVars
       \/ sync[s].phase = "deleteOne" /\ DeleteOne /\ Finally(s)
    /\ UNCHANGED <<outside, listVars, post>>

\* Keycloak or the device manager fails: this run ends without having removed anything.
SyncFails(s) ==
    /\ sync[s].phase \in {"loadTenants", "loadOnly", "getDevices"}
    /\ errors < MaxErrors
    /\ errors' = errors + 1
    /\ Finally(s)
    /\ UNCHANGED <<thing, answerVars, tenantThere, deletions, mongoVars, listVars, post>>

-----------------------------------------------------------------------------
PostSteps(p) ==
    PostValidated(p) \/ PostFindsTenant(p) \/ PostCreatesTenant(p) \/ PostUpserts(p)
SyncSteps(s) ==
    \/ SyncFindsRecords(s) \/ SyncLoadsTenants(s) \/ SyncFindsCredentials(s)
    \/ SyncGetsDevices(s) \/ SyncCannotFind(s) \/ SyncRemoves(s) \/ SyncWipes(s)

BasicNext ==
    \/ \E d \in Things : ThingChanges(d) \/ OnThingRemoved(d)
    \/ TenantChanges \/ OnTenantCreated \/ SessionOpens \/ OnTenantDeleted \/ Wipe
    \/ \E p \in Posts : PostSteps(p) \/ \E d \in Things : PostArrives(p, d)
    \/ \E s \in Syncs : SyncBegins(s) \/ SyncSteps(s) \/ SyncFails(s)

\* Cron starts each run again and again, and what has begun goes on.
BasicFairness ==
    /\ \A p \in Posts : WF_basicVars(PostSteps(p))
    /\ \A s \in Syncs : WF_basicVars(SyncSteps(s)) /\ WF_basicVars(SyncBegins(s))

BasicSpec == BasicInit /\ [][BasicNext]_basicVars
BasicFairSpec == BasicSpec /\ BasicFairness

-----------------------------------------------------------------------------
BasicTypeOK ==
    /\ bare \in BOOLEAN /\ cut \in BOOLEAN
    /\ credentials \subseteq Things
    /\ records \in 0..Cardinality(Posts)
    /\ callbacks \in 0..MaxCallbacks
    /\ hasIds => callbacks > 0
    /\ \A s \in Syncs : sync[s].todo \subseteq Things

\* No step of an event, of a synchronisation or of a request takes the
\* credential of a device the device manager has, unless its tenant was
\* deleted at some time (SyncLoader.loadDevices, the device callback), and as
\* long as every answer of the device manager had room for all devices: the
\* one GET of getDevices asks for no second page, and a device beyond the
\* first loses its credential.
CredentialsOfDevicesKept ==
    [][\A d \in credentials \ credentials' :
           thing[d] # "present" \/ deletions > 0 \/ ~tenantThere \/ cut]_basicVars

\* The credential of a removed device does not outlive it for ever, even if a
\* request writes it after the removal's event was handled: the next
\* synchronisation removes it, as long as the tenant stays and the device
\* manager answers with an array.  With an object beside a count of pages
\* no synchronisation removes anything.
RemovedDevicesLoseCredentials ==
    bare /\ [](tenantThere /\ deletions = 0) =>
        \A d \in Things : thing[d] = "gone" ~> d \notin credentials

\* The credentials follow the devices, in both directions.
CredentialsFollowDevices == CredentialsOfDevicesKept /\ RemovedDevicesLoseCredentials
=============================================================================
