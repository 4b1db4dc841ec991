------------------------------- MODULE Storer -------------------------------
(***************************************************************************)
(* storage/time-series/influxdb/storer: takes the data of devices and the  *)
(* events of tenants from Kafka.  Data is buffered in a writer per         *)
(* organisation and flushed to InfluxDB later; a tenant has an             *)
(* organisation with a bucket.  The callbacks are registered while         *)
(* InfluxDB is healthy.  One tenant.                                       *)
(***************************************************************************)
EXTENDS Naturals, FiniteSets

CONSTANTS
    Points,         \* records with data of a device
    Handlers,       \* tenant events in processing (sdk.in.processing.max.messages)
    MaxTenantEvents,
    MaxStorerFaults \* crashes, failed requests and outages

ASSUME StorerAssumption == MaxTenantEvents \in Nat /\ MaxStorerFaults \in Nat

VARIABLES
    stage,          \* of the process: "init", "ready", then the shutdown handlers
    influxUp, isHealth, held, callbacks,
                    \* isHealth: "null", "yes", "no"; held: idCallback... are set;
                    \* callbacks: registrations the consumer has
    topic,          \* Kafka: points not yet taken
    writer, writerId,   \* DataWriter.writers of the tenant: "none", "open", "closed", and which it is
    unclosed,       \* it is closed for good: closeOne was rejected before it could forget it
    buffer,         \* points of that writer not written yet
    orphans,        \* those of writers that were forgotten open
    stored, lost,
    org, orgBucket,    \* InfluxDB: id of the organisation (0: none), and its bucket
    handler,        \* events of the tenant in processing
    orgs, tenantEvents, storerFaults,
    flapped,        \* InfluxDB was unhealthy before the first registration or check (history)
    settled,        \* event that was handled last, alone and without a failure (history)
    excusedPoints   \* points something happened to that may cost them (history)

healthVars == <<influxUp, isHealth, held, callbacks, flapped>>
dataVars == <<topic, writer, writerId, unclosed, buffer, orphans, stored, lost>>
orgVars == <<org, orgBucket, orgs, settled>>
storerVars == <<stage, healthVars, dataVars, orgVars, handler, tenantEvents, storerFaults, excusedPoints>>

Free == [phase |-> "free", id |-> 0]

StorerInit ==
    /\ stage = "init"
    /\ influxUp = TRUE      \* isReady, else the process ends
    /\ isHealth = "null" /\ held = FALSE /\ callbacks = 0 /\ flapped = FALSE
    /\ topic = Points /\ writer = "none" /\ writerId = 0 /\ unclosed = FALSE
    /\ buffer = {} /\ orphans = {} /\ stored = {} /\ lost = {}
    /\ org \in {0, 1} /\ orgBucket = (org = 1) /\ orgs = org     \* the tenant may be there
    /\ settled = "none"
    /\ handler = [h \in Handlers |-> Free]
    /\ tenantEvents = 0 /\ storerFaults = 0 /\ excusedPoints = {}

StorerFault == storerFaults < MaxStorerFaults /\ storerFaults' = storerFaults + 1

-----------------------------------------------------------------------------
(* Callbacks and health *)

\* registerCallbacksConsumer overwrites the ids; unregisterCallbacks knows those it has.
Registers == callbacks' = callbacks + 1 /\ held' = TRUE
Unregisters == callbacks' = (IF held THEN callbacks - 1 ELSE callbacks) /\ held' = FALSE

\* App.init goes on when the consumer is connected.
Initialized ==
    /\ stage = "init"
    /\ stage' = "ready"
    /\ Registers
    /\ UNCHANGED <<influxUp, isHealth, flapped, dataVars, orgVars, handler, tenantEvents, storerFaults, excusedPoints>>

InfluxChanges ==
    /\ IF influxUp THEN StorerFault ELSE UNCHANGED storerFaults
    /\ influxUp' = ~influxUp
    /\ excusedPoints' = excusedPoints \cup buffer
    /\ UNCHANGED <<stage, isHealth, held, callbacks, flapped, dataVars, orgVars, handler, tenantEvents>>

\* influxdbHealthChecker, which also runs while App.init awaits the consumer.
HealthCheck ==
    /\ stage \in {"init", "ready"}
    /\ isHealth' = IF influxUp THEN "yes" ELSE "no"
    /\ flapped' = (flapped \/ (~influxUp /\ (stage = "init" \/ isHealth = "null")))
    /\ IF isHealth = "no" /\ isHealth' = "yes" THEN Registers
       ELSE IF isHealth = "yes" /\ isHealth' = "no" THEN Unregisters ELSE UNCHANGED <<held, callbacks>>
    /\ UNCHANGED <<stage, influxUp, dataVars, orgVars, handler, tenantEvents, storerFaults, excusedPoints>>

-----------------------------------------------------------------------------
(* Data *)

\* callbackDeleteTenant is at work.
Removing == \E h \in Handlers : handler[h].phase \in {"delete", "deleteOrg", "close", "forget", "keep"}

\* Nobody promises to store a point that is accepted now.
AtRisk == ~influxUp \/ ~orgBucket \/ Removing \/ unclosed

\* write buffers the point, and the record counts as processed; a writer that is
\* closed refuses it, and the record counts as processed all the same.
Writes(p) ==
    /\ callbacks > 0 /\ stage \in {"init", "ready", "unregistered"}
    /\ p \in topic
    /\ topic' = topic \ {p}
    /\ IF writer = "closed"
       THEN lost' = lost \cup {p} /\ UNCHANGED <<writer, writerId, buffer>>
       ELSE /\ writer' = "open" /\ buffer' = buffer \cup {p} /\ UNCHANGED lost
            /\ writerId' = IF writer = "none" THEN writerId + 1 ELSE writerId
    /\ excusedPoints' = IF AtRisk THEN excusedPoints \cup {p} ELSE excusedPoints
    /\ UNCHANGED <<stage, healthVars, unclosed, orphans, stored, orgVars, handler, tenantEvents, storerFaults>>

\* What is flushed is written, or given up by InfluxDB's client after a few attempts.
Flushable == influxUp /\ orgBucket
SendsPoints(points) ==
    IF Flushable THEN stored' = stored \cup points /\ UNCHANGED lost
    ELSE lost' = lost \cup points /\ UNCHANGED stored
Flushed == buffer' = {} /\ SendsPoints(buffer)

\* The batch is full or the flush interval is over.
Flushes ==
    /\ \/ buffer # {} /\ Flushed /\ UNCHANGED orphans
       \/ orphans # {} /\ orphans' = {} /\ SendsPoints(orphans) /\ UNCHANGED buffer
    /\ UNCHANGED <<stage, healthVars, topic, writer, writerId, unclosed, orgVars, handler, tenantEvents, storerFaults, excusedPoints>>

-----------------------------------------------------------------------------
(* Events of the tenant *)

Handled(h, phase, id) == handler' = [handler EXCEPT ![h] = [phase |-> phase, id |-> id]]
\* The last step of a handler; what it says counts if it was alone.
Ends(h, what) ==
    /\ handler' = [handler EXCEPT ![h] = Free]
    /\ settled' = IF settled = "alone" THEN what ELSE "any"

Arrives(h) ==
    /\ callbacks > 0 /\ stage = "ready"
    /\ handler[h] = Free
    /\ tenantEvents < MaxTenantEvents
    /\ tenantEvents' = tenantEvents + 1
    /\ Handled(h, "create", 0) \/ Handled(h, "delete", 0)
    /\ settled' = IF \A g \in Handlers : handler[g] = Free THEN "alone" ELSE "any"
    /\ excusedPoints' = IF handler'[h].phase = "delete" THEN excusedPoints \cup buffer ELSE excusedPoints
    /\ UNCHANGED <<stage, healthVars, dataVars, org, orgBucket, orgs, storerFaults>>

\* createOrgWithDefaultBucket and deleteOrg: getOrgInfo.
GetOrg(h) ==
    /\ influxUp
    /\ \/ handler[h].phase = "create" /\ Handled(h, IF org = 0 THEN "post" ELSE "hasBucket", org)
       \/ handler[h].phase = "delete" /\ Handled(h, IF org = 0 THEN "close" ELSE "deleteOrg", org)
    /\ UNCHANGED <<stage, healthVars, dataVars, orgVars, tenantEvents, storerFaults, excusedPoints>>

\* postOrgs; a name that exists by now is an error.
PostOrg(h) ==
    /\ handler[h].phase = "post" /\ influxUp
    /\ IF org # 0 THEN Ends(h, "any") /\ UNCHANGED <<org, orgBucket, orgs>>
       ELSE /\ orgs' = orgs + 1 /\ org' = orgs' /\ orgBucket' = FALSE
            /\ Handled(h, "postBucket", org') /\ UNCHANGED settled
    /\ UNCHANGED <<stage, healthVars, dataVars, tenantEvents, storerFaults, excusedPoints>>

\* hasDefaultBucketInOrg asks by the name of the organisation.
HasBucket(h) ==
    /\ handler[h].phase = "hasBucket" /\ influxUp
    /\ IF org # 0 /\ orgBucket THEN Ends(h, "create") ELSE Handled(h, "postBucket", handler[h].id) /\ UNCHANGED settled
    /\ UNCHANGED <<stage, healthVars, dataVars, org, orgBucket, orgs, tenantEvents, storerFaults, excusedPoints>>

PostBucket(h) ==
    /\ handler[h].phase = "postBucket" /\ influxUp
    /\ orgBucket' = (orgBucket \/ org = handler[h].id)
    /\ Ends(h, "create")
    /\ UNCHANGED <<stage, healthVars, dataVars, org, orgs, tenantEvents, storerFaults, excusedPoints>>

DeleteOrg(h) ==
    /\ handler[h].phase = "deleteOrg" /\ influxUp
    /\ IF org = handler[h].id THEN org' = 0 /\ orgBucket' = FALSE ELSE UNCHANGED <<org, orgBucket>>
    /\ Handled(h, "close", 0)
    /\ UNCHANGED <<stage, healthVars, dataVars, orgs, settled, tenantEvents, storerFaults, excusedPoints>>

\* closeOne: close() flushes what remains, and is rejected if the flush is.  With nothing
\* to flush, or closed before, it ends at once.
CloseWriter(h) ==
    /\ handler[h].phase = "close"
    /\ IF writer = "open" /\ buffer # {}
       THEN /\ Flushed
            /\ Handled(h, IF Flushable THEN "forget" ELSE "keep", writerId)
            /\ UNCHANGED <<writer, unclosed, settled>>
       ELSE /\ writer' = "none" /\ unclosed' = FALSE
            /\ Ends(h, "delete")
            /\ UNCHANGED <<buffer, stored, lost>>
    /\ UNCHANGED <<stage, healthVars, topic, writerId, orphans, org, orgBucket, orgs, tenantEvents, storerFaults, excusedPoints>>

Own(h) == writer # "none" /\ handler[h].id = writerId

\* The writer is closed, with what came during the flush, and the one of the tenant
\* forgotten, be it another by now.
ForgetWriter(h) ==
    /\ handler[h].phase = "forget"
    /\ IF Own(h) THEN lost' = lost \cup buffer /\ UNCHANGED orphans
       ELSE orphans' = orphans \cup buffer /\ UNCHANGED lost
    /\ buffer' = {}
    /\ writer' = "none" /\ unclosed' = FALSE
    /\ Ends(h, "delete")
    /\ UNCHANGED <<stage, healthVars, topic, writerId, stored, org, orgBucket, orgs, tenantEvents, storerFaults, excusedPoints>>

\* Rejected, it is closed as well, but stays in writers: it refuses the points of a
\* tenant of that name until the next removal, or until the process starts again.
KeepWriter(h) ==
    /\ handler[h].phase = "keep"
    /\ IF Own(h) THEN writer' = "closed" /\ unclosed' = TRUE /\ lost' = lost \cup buffer /\ buffer' = {}
       ELSE UNCHANGED <<writer, unclosed, lost, buffer>>
    /\ Ends(h, "delete")
    /\ UNCHANGED <<stage, healthVars, topic, writerId, orphans, stored, org, orgBucket, orgs, tenantEvents, storerFaults, excusedPoints>>

\* A request fails, executed or not: a creation is given up, a deletion goes on to the writer.
RequestFails(h) ==
    /\ StorerFault
    /\ handler[h].phase \in {"create", "post", "hasBucket", "postBucket", "delete", "deleteOrg"}
    /\ IF handler[h].phase \in {"delete", "deleteOrg"} THEN Handled(h, "close", 0) ELSE handler' = [handler EXCEPT ![h] = Free]
    /\ settled' = "any"
    /\ \/ UNCHANGED <<org, orgBucket, orgs>>
       \/ handler[h].phase = "post" /\ influxUp /\ org = 0 /\ orgs' = orgs + 1 /\ org' = orgs' /\ orgBucket' = FALSE
       \/ handler[h].phase = "postBucket" /\ influxUp /\ org = handler[h].id /\ orgBucket' = TRUE /\ UNCHANGED <<org, orgs>>
       \/ handler[h].phase = "deleteOrg" /\ influxUp /\ org = handler[h].id /\ org' = 0 /\ orgBucket' = FALSE /\ UNCHANGED orgs
    /\ UNCHANGED <<stage, healthVars, dataVars, tenantEvents, excusedPoints>>

-----------------------------------------------------------------------------
(* The end of the process *)

\* Mutant: the writers are closed first.
ClosesWritersFirst ==
    /\ stage = "ready" /\ stage' = "unregistered"
    /\ Flushed
    /\ writer' = IF writer = "none" THEN "none" ELSE "closed"
    /\ UNCHANGED <<healthVars, topic, writerId, unclosed, orphans, orgVars, handler, tenantEvents, storerFaults, excusedPoints>>

\* SIGTERM: the shutdown handlers run in the order of their registration:
\* unregisterCallbacks ...
StopsCallbacks ==
    /\ stage = "ready" /\ stage' = "unregistered"
    /\ Unregisters
    /\ UNCHANGED <<influxUp, isHealth, flapped, dataVars, orgVars, handler, tenantEvents, storerFaults, excusedPoints>>

\* ... consumer.finish ...
StopsConsumer ==
    /\ stage = "unregistered" /\ stage' = "finished"
    /\ callbacks' = 0
    /\ UNCHANGED <<influxUp, isHealth, held, flapped, dataVars, orgVars, handler, tenantEvents, storerFaults, excusedPoints>>

\* ... and closeAll of the writers.
ClosesWriters ==
    /\ stage = "finished" /\ stage' = "closed"
    /\ Flushed
    /\ writer' = IF writer = "none" THEN "none" ELSE "closed"
    /\ UNCHANGED <<healthVars, topic, writerId, unclosed, orphans, orgVars, handler, tenantEvents, storerFaults, excusedPoints>>

\* The container starts again, after a shutdown or a kill: what was buffered is gone.
Restarts(killed) ==
    /\ IF killed THEN StorerFault ELSE stage = "closed" /\ UNCHANGED storerFaults
    /\ influxUp
    /\ stage' = "init" /\ isHealth' = "null" /\ held' = FALSE /\ callbacks' = 0 /\ flapped' = FALSE
    /\ writer' = "none" /\ unclosed' = FALSE
    /\ buffer' = {} /\ orphans' = {} /\ lost' = lost \cup buffer \cup orphans
    /\ excusedPoints' = IF killed THEN excusedPoints \cup buffer ELSE excusedPoints
    /\ settled' = IF handler = [h \in Handlers |-> Free] THEN settled ELSE "any"
    /\ handler' = [h \in Handlers |-> Free]
    /\ UNCHANGED <<influxUp, topic, writerId, stored, org, orgBucket, orgs, tenantEvents>>

StorerNext ==
    \/ Initialized \/ InfluxChanges \/ HealthCheck \/ Flushes
    \/ StopsCallbacks \/ StopsConsumer \/ ClosesWriters
    \/ Restarts(FALSE) \/ Restarts(TRUE)
    \/ \E p \in Points : Writes(p)
    \/ \E h \in Handlers :
        \/ Arrives(h) \/ GetOrg(h) \/ PostOrg(h) \/ HasBucket(h) \/ PostBucket(h)
        \/ DeleteOrg(h) \/ CloseWriter(h) \/ ForgetWriter(h) \/ KeepWriter(h) \/ RequestFails(h)

StorerSpec == StorerInit /\ [][StorerNext]_storerVars

-----------------------------------------------------------------------------
StorerTypeOK ==
    /\ stage \in {"init", "ready", "unregistered", "finished", "closed"}
    /\ callbacks \in Nat /\ held \in BOOLEAN
    /\ topic \cup buffer \cup orphans \cup stored \cup lost = Points
    /\ writer \in {"none", "open", "closed"}
    /\ orgBucket => org # 0
    /\ settled \in {"none", "alone", "any", "create", "delete"}

\* While InfluxDB is unhealthy nothing is consumed, and while it is healthy
\* each record is consumed once, provided InfluxDB was healthy at the first check
\* and while App.init awaited Kafka (createHealthChecker, setCallbacksKafkaConsumer...).
CallbacksFollowHealth ==
    (stage = "ready" /\ ~flapped) => callbacks = (IF isHealth = "no" THEN 0 ELSE 1)

\* An event of the tenant that was handled alone and without a failure leaves
\* what it should, whatever partial failures went before it: an organisation with
\* its bucket, or none.
OrgFollowsTenancy ==
    /\ settled = "create" => org # 0 /\ orgBucket
    /\ settled = "delete" => org = 0

\* The consumer follows the health of InfluxDB, and InfluxDB the tenants.
StorerConsistent == CallbacksFollowHealth /\ OrgFollowsTenancy

\* A point is lost only if, between its acceptance and its flush, the process was killed,
\* InfluxDB was away, the tenant had no bucket or was being removed, or if the writer
\* of a tenant removed before could not be closed: an orderly shutdown loses none.
PointsSurviveShutdown == lost \subseteq excusedPoints

\* What is consumed while the two agree is kept until it is written.
PointsAreKept == StorerConsistent /\ PointsSurviveShutdown
=============================================================================
