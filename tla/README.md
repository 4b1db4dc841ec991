# A TLA+ development of dojot

dojot is a platform for the Internet of Things made of small services, most of
them Node.js processes, that keep their own state in MongoDB, Redis, InfluxDB or
MinIO and tell each other what happened through Kafka. This directory models
the services whose correctness depends on the order of asynchronous steps,
checks them with TLC and proves the most important facts with TLAPS.

`PROJECT.json` is the index of the development: which definition stands for
which lines, which configuration checks which property, which property catches
which plausible bug (the definitions marked *Mutant* in the modules), and which
hazards of the code are known and covered.

## 1. Inventory

Paths are relative to `src/`.

| Component | State | Operations | What is hard | What makes it correct |
|---|---|---|---|---|
| **x509-identity-mgmt, certificates** (`iam/x509-identity-mgmt/js`) | certificate records in MongoDB | issue, register, change owner, delete, throw away; each may publish an ownership event | every check, write and event is a separate await; the process may die or Kafka refuse between write and event | what the events say agrees with the database |
| **x509-identity-mgmt, EJBCA** (`ejbca/`, `CAService`) | the SOAP client that requests share | issue, revoke, root certificate, revocation list | the first request creates the client while others sleep; the record goes before the revocation | one client at a time, what is removed is revoked and listed, what is valid is recorded |
| **x509-identity-mgmt, trusted CAs** | trusted CA records | register, delete, automatic registration with a certificate | check-then-act on a limit, on existence and on dependents | the limit is (nearly) kept; a certificate keeps its CA |
| **x509-identity-mgmt, device events** | cache of devices in MongoDB | creation, removal; give a certificate to a device | cache, events and answers of the device manager interleave; tenant passed as a string | owners existed; certificates of removed devices are freed |
| **certificate-acl** (`iam/certificate-acl`) | fingerprint → owner in Redis, Kafka offsets | consume ownership events, answer a query, fill the cache | at-least-once delivery, Redis outages with commands in flight, restart | no event lost; replay converges to the last event |
| **kafka-ws** (`subscription-engine/kafka-ws`) | tickets and lifetimes in Redis, maps of sessions, topics and rules | ticket, open, filter and deliver, expire, close | the websocket opens before its request is checked; Redis announces an expiration once; rules are shared by their text | single use of a ticket, isolation of tenants, no leak, bounded lifetime, sharing nobody can see |
| **http-agent** (`connector/http-agent`) | cache of identities in Redis, sessions of tenants | identify, validate, produce; device and tenant events | cache filled from stale answers, errors cached as "unknown" | what is sent is of an enabled device, what is refused is refused for a cause |
| **v2k-bridge**, **k2v-bridge** (`connector/mqtt/vernemq`) | queue of messages; MQTT session and Kafka consumer | MQTT → Kafka, Kafka → MQTT | the worker of the queue is not awaited; connect and close overlap | each message once, recovery from any end, one consumer per connection |
| **VerneMQ plugins** (`connector/mqtt/vernemq/broker`) | a timer per client | register, gone, timer | a session that is taken over leaves its timer | every session ends, none of another's timer |
| **device-basic-authentication** (`iam/device-basic-authentication`) | credentials and tenants in MongoDB | create, authenticate, remove, periodic synchronisation | synchronisation works on lists read earlier, which may not be whole, and overlaps with itself | credentials exist exactly for existing devices |
| **storer** (`storage/time-series/influxdb/storer`) | a writer with a buffer per tenant, organisations and buckets | write, flush, create and delete a tenant, follow InfluxDB's health, shut down | acknowledges before the flush; deletion against write; a writer that cannot be closed | what is acknowledged is stored, short of a kill |
| **retriever** (`storage/time-series/influxdb/retriever`) | local copy of tenants and devices; authorisations | load, device events; paged, GraphQL and flexible queries | the copy is rewritten while devices change; pages are offsets into moving data | removed devices are forgotten, pages cover the range |
| **telegraf plugins** (`storage/time-series/influxdb/telegraf`) | slots for undelivered messages, the consumer; the clients of InfluxDB and the time each waits | consume, deliver, refresh the topics; create an organisation and its bucket; write metrics to organisations | the refresh replaces the consumer under its sessions; one batch for many organisations, retried as a whole | every slot comes back; a metric is in its organisation and no other |
| **file-mgmt** (`storage/file/minio/file-mgmt`) | objects, temporary objects, buckets and tenants | upload in two phases, remove, tenant events | commit of two steps, rollback that races the upload, errors that do not stop the form, removals nobody awaits | an upload is stored at once or not at all |
| **cert-sidecar** (`tools/cert-sidecar`) | key, certificate, CA, bundle and CRL, in memory and in files | make, renew by four cron jobs, delete at the end | jobs that overlap and go on during the end, a key set to null | key and certificate match; files follow the memory |
| **kafka2ftp** (`connector/kafka2ftp`) | pool of FTP connections | take a connection, upload, retry | one circular index advanced by all who wait | a connection serves one upload and comes back |
| **report-manager** (`data-visualization/reports/report-manager`) | reports, attempts, files; jobs of a queue; the tenant's schema | create, process, delete; tenant events | three steps of a job against deletions, stalls, dropped schemas and the bucket file-mgmt empties | a report that shows a file has it |
| **device-manager-batch** (`device/device-manager-batch`) | tables of devices, templates and their associations | batch creation and removal | parallel elements without a transaction, identifiers drawn at random | a removal is announced once, of what is gone |
| **keycloak provider** (`iam/keycloak/dojot-provider`) | realms, the representation it customises them from | create and remove a realm | event before commit, a representation shared by sessions | tenants are whole and announced truly |
| keycloak sidecar, keycloak-proxy, ejbca image, locust, history-proxy, certgen, certreq | list of tenants; none, or scripts | | the sidecar has file-mgmt's tenants without the bucket; the rest is stateless or run by hand | |

**How they interact.** A device obtains a certificate from x509-identity-mgmt,
which publishes `certificate.create`, `certificate.update` and
`certificate.delete` on a topic per tenant. certificate-acl consumes them into
Redis; the agents (VerneMQ's ACL through the bridges, the http-agent) ask it who
owns a fingerprint and it falls back to the internal API of x509-identity-mgmt
when Redis does not know. Device data goes from the agents through Kafka to
kafka-ws (live), the storer (history), telegraf and kafka2ftp (files), and back
from the retriever to the clients and to report-manager, which keeps its files
in file-mgmt. Devices come from the device manager and device-manager-batch,
tenants from Keycloak, through the events of its provider and through
keycloak-proxy; every service keeps its own copy of both lists, which is where
most of the hazards are. cert-sidecar stands beside any service that uses TLS.

## 2. Modules

| Module | Stands for |
|---|---|
| `OwnershipEvents` | the ownership events and the Kafka log between the two services: one sequence per partition, appended to with the partition of the owner's key |
| `CertificateService` | certificate records and the requests on them; composed by the next and by `OwnershipPipeline` |
| `TrustedCAService` | trusted CAs, and registration of a certificate that depends on one; extends `CertificateService` |
| `CertificateAcl` | the consumer, Redis, the Kafka offsets, the HTTP query; also specified on its own with arbitrary producers |
| `OwnershipPipeline` | `CertificateService` and `CertificateAcl` joined by the log and by the query to the internal API |
| `KafkaWs` | tickets, sessions, shared subscriptions, lifetimes |
| `ProcessingRules` | kafka-ws's filters: conditions and their operators, fingerprints, and rules shared between subscribers |
| `DeviceEvents` | the device manager's events and the cache of devices in x509-identity-mgmt |
| `HttpAgent` | identification, validation and production of a device's message, with the cache and the tenants |
| `V2kBridge`, `K2vBridge`, `DisconnectPlugin` | the MQTT side: two bridges and the timers of the broker's plugin |
| `BasicCredentials` | credentials, requests for them, events and synchronisation |
| `Storer` | buffers, organisations, health and shutdown of the storer |
| `RetrieverSync`, `DeviceData` | the retriever's copy of the devices; its queries |
| `TelegrafConsumer`, `TelegrafOutputs` | slots, claims and sessions of the consumer plugin; the plugins that create organisations and write metrics to them |
| `EjbcaFacade` | x509-identity-mgmt in front of EJBCA: the shared SOAP client, issue and revocation with failures, the revocation list |
| `FileStore`, `FileMgmt` | the abstract store of one path; file-mgmt, shown to implement it |
| `Reports` | reports, their jobs and files, the schema of the tenant |
| `DeviceBatch` | batches on the tables of the device manager, and their events |
| `CertSidecar` | the sidecar's jobs as sequences of operations on memory and files |
| `FtpUpload` | the pool of connections and the uploads that share it |
| `KeycloakProvider` | transactions of Keycloak with the provider's customisation and announcement |
| `CertificateAclProofs` | theorems on `CertificateAcl` (section 4) |
| `IdentityProofs` | theorems on `CertificateService`, `TrustedCAService` and their join with certificate-acl, `OwnershipPipeline` |
| `KafkaWsProofs` | theorems on `KafkaWs` |
| `MqttProofs` | theorems on `V2kBridge`, `K2vBridge`, `DisconnectPlugin` and `BasicCredentials`, and on all four side by side in `MCRecovery` |
| `DeviceProofs` | theorems on `DeviceEvents`, `DeviceBatch`, `HttpAgent`, `RetrieverSync` and `DeviceData` |
| `ConsumerProofs` | theorems on `FtpUpload`, `TelegrafConsumer`, `TelegrafOutputs`, `Reports`, `Storer` and `FileMgmt` (with the refinement of `FileStore`) |
| `AuthorityProofs` | theorems on `EjbcaFacade`, `KeycloakProvider` and `CertSidecar` |
| `ServicesProofs` | theorems on `ProcessingRules`, and on all the services side by side in `MCServices` |
| `MC*` | instances for TLC |

`OwnershipPipeline` composes components that talk to each other. `MCServices` and
`MCRecovery` put side by side components that share no state: a variable `subject`,
chosen at the start, names the one that runs, the others rest, so that a
run explores the sum of their behaviours and not the product; the view of
`MCServices` compares states by the variables of the one that runs, since those of the others have a single value, and, where it does not matter which of
several points, handlers, subscribers, reports or elements of a batch is in a state, by how many are in each (`StorerView`, `RulesView`, `ReportsView`, `BatchView`); of an upload that is over it
leaves out what no step and no property looks at (`FileView`). Each of these
modules has a specification of its own (`HttpSpec`, `StorerSpec`, ...), with
its fairness where it has liveness properties.

### How state and actions correspond to the code

*One request is one client.* `req[c]` (and `caReq[c]` for a trusted CA) is the
position of a handler between two awaits, with the local variables it still
uses: the record it read, the event it has to publish, the key of its
partition. An action is the code from one await to the next, so that `DeleteReads`,
`DeleteRemoves`, `DeleteRevokes` and `Notifies` are the four steps of
`DELETE /certificates/:fingerprint`. `Fails` is the rejection of the awaited
promise at any of them, `Crash` the end of the process with all requests.
`docs` is the collection in insertion order (`findOne` takes the first of
duplicates). `GenerateCertificate` is one step although the code awaits EJBCA in
between: nobody else can name a certificate that has not been returned yet.

*A Kafka consumer is its offsets.* `position` is what the client has delivered,
`acked` what the callbacks acknowledged, `committed` what survives a restart.
`cmds` is the pipeline of commands on the Redis connection, `replies` the
commands executed whose promise has not resolved. `CommandTimesOut` abandons a command
that Redis may still execute. `RedisDisconnects` and `RedisConnects` are
`suspend` and `resume`; `Start` is the registration of the callback when the
initialisation of the consumer ends, which may come before or after either.
`Exit` is a restart, after SIGTERM (`Terminated`) or without (`Killed`).

*A websocket and its request are two things.* `ws[s]` is the websocket, which
express-ws opens before any middleware runs; `stage[s]` is the request that the
middlewares work off (`Redeem`, `Connect`). `ClientCloses` can therefore come
before `Connect`, and `CloseEvent` finds a handler only if `Connect` has set it.
`expirationMap`, `topicMap`, `registered` and `rules` are the maps of the same
names in RedisExpireMgmt, KafkaTopicsConsumerCallbacksMgmt and
ProcessingRuleManager. `keys` is what Redis holds and `notices` its announcements on
their way.

*A bridge is its connection.* In `V2kBridge` `link` is the TCP connection and
`isConnected` the flag of the client, which differ between an end and its
callback; `queue` holds what the worker has not taken, `overdrawn` counts how far
reconnections went past the limit. In `K2vBridge` each connection makes a consumer:
`starting` are those whose `init` is awaited, `registered` those that consume, and
`consumer` is the one the client knows. `DisconnectPlugin` separates `timers`, which
run, from `ets`, the table that remembers one of them; `TakesOver` gives the three
orders in which the broker reports the old end and the new session.

*A synchronisation is a loop with a memory.* `sync[s]` in `BasicCredentials` and
`load` in `RetrieverSync` hold the lists a run has read and the rest of its
work. The consumer's callbacks are counted (`callbacks`) where overlapping
runs register them more than once, and a flag (`listening`) where they do not.

*A service is where its handler stands.* `request[r].phase` (`HttpAgent`),
`giving[c]` (`DeviceEvents`), `handler[h]` (`Storer`), `upload[u]`, `tenancy` and
`remover` (`FileMgmt`), `worker[w]` (`Reports`), `batch[b]`, `removal[x]` and
`clearing[t]` (`DeviceBatch`), `transfer[f]` (`FtpUpload`), `call[r]` (`EjbcaFacade`), `op[s]` (`KeycloakProvider`) are positions
between two awaits with the local variables still in use, as above. In `CertSidecar` a job is the sequence
`todo[j]` of operations it has left, and an operation may put others in front. In
`TelegrafConsumer` `slots` is the length of the semaphore's channel and `undelivered` the
map of messages telegraf has not answered for. In `TelegrafOutputs` telegraf numbers its metrics, `delivered` is
the last one it was told is written, and `flushing`, `server` and `left` are where `Write` stands in its loops; `backingOff` are
the clients whose `retryTime` has not come. In `DeviceData` a reader is a client
that follows the links to the next page while `Stores`, `Expires` and `Passes` change the data
and the clock.

*A closed writer is one that refuses.* In `Storer` `writer` is the entry of the tenant in the map of
DataWriter: none, open, or closed, which is what a `close()` that is rejected leaves there (`KeepWriter`);
`writerId` tells the writer a removal closes from the one another callback made meanwhile, and `orphans` are the points of
a writer no longer in the map, which its client flushes all the same.

*A form is received whatever was answered.* In `FileMgmt` `upload[u].called` is that `next` was called, the one call that
express takes; `answer` is what the client was told first. `FieldNamedFile`, `LimitReached`, `LimitRolledBack` and `LimitAnswered` are the handlers
of the interceptor and the two sides of its await, between which the put and the controller go on. `lost` is a copy whose answer was given up
while MinIO may still execute it (`LostCopy`).

*A filter is its tree.* `ProcessingRules` has the fields as the pieces between commas (each may open a group, name a path, close the
group), the condition as the parser leaves
it (parameter, operator, values with their quotes), `CreateFingerprint` the pieces and `CanonicalCondition` the text
that fingerprints compare, without their order, and `Filtered` what a rule makes of a message. Texts
are members of a small set; their order, their numbers, the texts of numbers, their pieces and their containment are constants,
given in `MCServices` as the language defines them.

*History variables* (`announced`, `lost`, `contended`, `applied`, `filled`,
`early`, `missed`, `caRaced`, `used`, `received`, `excused`, `everExisted`, `disturbed`,
`takenOver`, `flapped`, `settled`, `excusedPoints`, `leftover`, `overlapped`, `expired`, `ragged`,
`unclosed`, `cut`, `wiped`, `nth`, `healed`, `rolledBack`, `unkept`, `removed`, `adrift`, the field `due` of a call, and the fields `before`, `overtaken` and `shrunk` of a reader) record what happened and guard
no action; they let a property say under what circumstances the code promises something.

## 3. What is checked

| Run | Result | Shows |
|---|---|---|
| `acl_consumer` | holds | committed offsets stay behind Redis; the callback is registered exactly while Redis is there; a caught-up consumer holds the last event of a fingerprint, in spite of replays |
| `acl_liveness` | holds | every event is eventually committed, if no record is malformed |
| `x509_requests` | holds | log and database agree when requests do not overlap or fail; owners are announced even if they overlap; overshoot of the CA limit is bounded; a certificate keeps its CA unless a removal overlapped |
| `ownership_pipeline` | holds | end to end, Redis names the owner the database has |
| `kafka_ws` | holds | tickets, sharing, isolation, expirations and, without outages of Redis, the lifetime |
| `services` | holds | sixteen services and parts of services, each with its environment; their properties are listed below |
| `services_recovery` | holds | the bridges, the disconnect plugin and the basic authentication come back to what they should be by themselves |
| `removal_race` | violated | a removal judges by a record read before its deletion: an owner assigned meanwhile is never told to be gone |
| `owner_change_partitions` | violated | with two partitions, two successive changes of owner can reach Redis in reverse order |
| `kafka_ws_lifetime` | violated | an outage of one of two Redis connections lets a session live for ever |
| `cert_renewal` | violated | a certificate renewed because it expires is for a key that nobody keeps: the files of key and certificate do not match |
| `device_removal` | violated | the certificates of a removed device stay with it |

The five violated properties state what a comment or a document of the
repository says; the findings in `PROJECT.json` quote it and describe the
counterexample. The conditions in the properties that hold (`lost`,
`contended`, `filled`, `missed`, `early`) are the other side of those findings:
TLC finds a counterexample as soon as one is dropped.

What `services` says of each:

| Service | Property | Says |
|---|---|---|
| http-agent | `DecisionsAreSound` | whatever the cache holds, a message is sent only for a device that was enabled at some time during its request, and a request is refused only if something was wrong or failed |
| x509-identity-mgmt | `OwnersExisted` | no certificate is given to a device that never existed, whatever the cache, the answers and the events do |
| storer | `PointsAreKept` | the consumer is registered once exactly while InfluxDB is healthy, a tenant's event leaves an organisation with its bucket or none, and an orderly shutdown loses no point; excepted are the points a writer refuses that an earlier removal could not close |
| file-mgmt | `StoresAtomically` | `FileMgmt` implements `FileStore`: the path holds one whole upload, stored at once and at most once; after a refusal only a copy that was on its way (the controller called during the rollback at the limit, or the answer of MinIO lost) |
| | `BucketsAreSound` | a listed tenant has its bucket and nobody is removing it, unless its creation failed or overlapped with a removal nobody awaits; a finished request leaves no temporary object, unless MinIO failed, the limit was reached, the form had a text field named `file` as well, or the service was killed |
| cert-sidecar | `FilesFollowProcess` | at rest the files are what the process has in memory; key and certificate match after a renewal for revocation; an orderly end beside which no job ran or began leaves nothing behind |
| device-manager-batch | `RemovalsAreFinal` | each creation of a device is announced to be removed at most once, and only when it is gone with its associations, although a creation may still associate it and a later one may draw its identifier again |
| report-manager | `ReportsHaveTheirFile` | a report that shows a file has it, unless file-mgmt emptied the bucket at the removal of the tenant, and a completed job left its record, although jobs run twice, reports are deleted under them and schemas are not dropped |
| retriever | `RemovedDevicesForgotten` | after a load, and with the events handled, no removed device is in the copy |
| | `PagesCoverTheRange` | a walk through the pages shows every point that was there and stays, and no row twice, although points arrive and expire (an ascending one may skip points when older ones expire under it) |
| kafka2ftp | `ConnectionsAreExclusive` | a connection serves one upload at a time and is held exactly as long |
| telegraf | `SlotsAreReturned` | slots are in use for undelivered messages and waiting claims and for nothing else |
| | `MetricsReachTheirOrganization` | an accepted tenant has its bucket; a delivered metric is in its organisation and in no other, or was refused, or its Write was cut short |
| x509-identity-mgmt and EJBCA | `AuthorityIsInStep` | one request at a time creates the SOAP client and nobody calls without it; a removal that was answered is revoked, and on every list renewed later; a valid certificate has its record, a request at it, or a failure to its name |
| keycloak | `RealmsAreAsAnnounced` | every tenant has the whole customisation, and of the events whose transaction did not roll back, the last one of a name tells whether the realm exists |
| kafka-ws | `SharingIsInvisible` | a subscriber is sent what a rule of its own would make of the message, unless a value or a group of fields of somebody holds a comma |

And `services_recovery`: a resent message reaches Kafka once (`ProducedOnce`) and v2k-bridge is
connected in the end if Kafka stays (`RunningBridgeRecovers`); k2v-bridge has exactly the
consumer of its connection (`ConsumerFollowsConnection`) and publishes every actuation
(`RunningActuationsPublished`), as long as connections and
disconnections do not overlap; a timer runs for every session of a device and
ends no other, take-overs apart (`TimersFollowSessions`), and no session stays (`DevicesAreDisconnected`); an event, a synchronisation or a
request never takes the credential of an existing device unless an answer of the device manager left a device out, and the one of a removed device goes if those answers are arrays (`CredentialsFollowDevices`).

### What the conditions of these properties tell

The conditions name what the code does not promise. The most important:

- *k2v-bridge*: a disconnection during `init`, or a connection during `finish`, leaves a consumer that
  consumes without a connection, and what it takes is dropped.
- *disconnect plugin*: the timer of a session that was taken over ends the next one early. To
  cancel it where the table is overwritten is not enough: an end reported late then
  cancels the timer of the new session.
- *http-agent*: a failure while a device is identified is cached as "unknown". A deleted tenant is
  never forgotten, because `remove` compares an identifier with an object; the
  tenants of x509-identity-mgmt are compared the same way.
- *device-basic-authentication, file-mgmt, report-manager and the keycloak sidecar*: the
  authentication of requests is given the array of tenants that exists at the start; a removal makes a new
  array, and what comes after it is not seen by the authentication.
- *device-basic-authentication*: `getDevices` is one GET without a page, where the retriever reads the same list page by page and takes it out of
  an object. What the endpoint answers is outside the repository, so the model lets it leave out any devices (`cut`) or be
  an object for good (`bare` is false): a device that is left out loses its credential, and of an object nothing is ever removed.
- *storer*: a removal deletes the organisation before it closes the writer, so that the close is rejected if points are left to flush,
  and a rejected close keeps the closed writer in the map: every point of a tenant of that name is then refused,
  and acknowledged, until the next removal of the tenant or restart of the service. Also: a change of InfluxDB's health while Kafka initialises leaves the callbacks registered or not
  against `isHealth`; a point that arrives while a writer closes reopens it on a deleted organisation; a kill loses
  the points in the buffer, which Kafka was told are done.
- *file-mgmt*: the rollback of a file over the limit races its own upload and may leave the temporary
  object, or be followed by the controller, which stores the truncated file for a client that is told 413; rejected, the rollback ends the process
  (Node.js 16, no handler). A text field named `file` beside the file leaves its temporary object in a request where nothing failed. Also: a form without a file is never answered; a bucket may be removed after it was made again.
- *cert-sidecar*: nothing stops the cron jobs at the end, so that a tick between two deletions writes a file again, the key included. With
  `shutdown.enable` the process asks for its own end while it starts (`errorHandle` is the promise of that, and no function).
  A CRL whose file could not be written is not written again until the next one; a failed
  renewal leaves no certificate in memory; the deletion of files stops at the first that is missing.
- *kafka2ftp*: the stream of the file is read by the first attempt, so a retry stores an empty
  file; the message is committed before the upload.
- *telegraf, outputs*: an answer of 413 for one organisation has the whole batch, with the metrics of every other, written
  in halves to that one; 500 for one ends `Write` as a success, and the organisations after it are not written. The creator takes the
  conflict of an organisation that exists for a success, has no identifier for its bucket, and starts again for ever: a tenant
  announced twice, or whose bucket could not be made at first, stops the creation of all that follow.
- *x509-identity-mgmt and EJBCA*: a request that sleeps for the client is refused if another attempt is under way when it wakes; a
  removal whose revocation fails leaves a valid certificate without a record, and EJBCA's failure between issue and
  save one that nobody has asked back.
- *v2k-bridge*: a removed tenant is never forgotten, as in the http-agent.
- *telegraf*: a refresh ends the consumer without the lock of the loop that uses it; marking a later message of a partition
  passes over an earlier one that is still undelivered.
- *device-manager-batch*: identifiers are three random bytes that are compared with nothing, so that the one of a removed device may be given to
  another, and be announced and removed again; one in use has the row refused, and the rest of the batch is not made. The event of a creation precedes the associations; an event Kafka refuses
  is lost, the rows are not restored.
- *report-manager*: file-mgmt empties the bucket of a removed tenant by itself; a report whose schema is dropped later, or not at all, shows
  a file that is gone. A file whose report was deleted during its job stays in file-mgmt.
- *retriever*: a device that a removal moves to a page already read is forgotten until the next load; a limit of a GraphQL
  query is one per series; two flexible queries may create two authorisations; an error in the
  paginator calls `next` twice.
- *kafka-ws*: `in:"a,b"` and `in:a,b` have the same fingerprint, and share the rule of whoever
  came first; so have the fields `a(b,c),d` and `a(b,d,c)`, whose pieces are sorted as texts. `in:0` never matches the number 0.

### Bounds

| Bound | Value | Why it is enough |
|---|---|---|
| fingerprints | 1 (ACL, pipeline), 2 (x509: one external, one internal) | nothing in the code relates two certificates, except a CA its dependents |
| devices | 2 | a change of owner needs a former and a new one |
| partitions | 1 or 2 | the difference between ordered and unordered events |
| `MaxRecords` | 2 and 1 | replay of an old event over a newer one needs two in one partition |
| `Clients`, `MaxRequests` | 2 and 4; 1 and 3 in the pipeline | every race of the hazards is between two requests, on a state one or two requests have prepared; in the pipeline requests follow one another |
| `MaxLosses`, `MaxRetries`, `MaxFaults` | 0 to 2 | a fault and another during the recovery from it |
| `MaxInFlight` | 2 | a command behind one that times out |
| `CaLimit` | 1, with 2 CAs | two registrations at the limit |
| sessions, topics, tenants | 2 | sharing, and a topic of the other tenant |
| tickets, `MaxIssues` | 1 and 2 | the same ticket issued twice in a second and presented by both sessions |
| http-agent: devices, requests, `MaxChanges`, `MaxFaults` | 2, 1, 2, 1 | a certificate that changes hands; requests meet only in the cache, which events and earlier entries change as well |
| device events: devices, certificates, `MaxDeviceEvents` | 2, 2, 4 | a device removed and created again beside another |
| storer: points, handlers, `MaxTenantEvents`, `MaxStorerFaults` | 2, 2, 2, 2 | two events of a tenant handled at once; a point before and one after; InfluxDB lost and back |
| file-mgmt: uploads, removals at once, `MaxTenancies`, `MaxFileFaults` | 2, 1, 2, 1 | two uploads to one path, one of them well-formed and within the limit (`PlainUpload`), the other of any kind; a tenant created and removed again |
| cert-sidecar: `MaxKeys`, `MaxVersions`, `MaxTicks`, `MaxCertFaults` | 3, 2, 2, 1 | two cron jobs side by side, on a changed CA or CRL |
| batch: identifiers, labels, `MaxMade`, templates, creations, removals, `MaxSends` | 1, 2, 2, 1, 2, 2, 1 | two elements that remove one device, beside its creation; an identifier drawn again, in use or not |
| reports: reports, workers, `MaxEvents`, `MaxReportFaults` | 2, 2, 2, 1 | a stalled job run twice; the schema made and dropped |
| retriever: identifiers, page size, `MaxLoads`, `MaxRestarts`, `MaxLost` | 2, 1, 2, 1, 1 | two pages, between which a device goes |
| pages: attributes, `MaxTime`, `MaxLimit`, `MaxLate` | 2, 3, 2, 1 | rows of two attributes, pages that split them, a point that shifts them |
| kafka2ftp: files, connections, `Retries`, `MaxFtpFaults` | 3, 2, 1, 3 | one upload more than connections, and every retry used up |
| telegraf: partitions, `MaxOffset`, `MaxUndelivered`, `MaxSessions`, `MaxRefreshes` | 2, 2, 2, 3, 2 | fewer slots than messages, across sessions |
| telegraf outputs: metrics, organisations, servers, `MaxTold`, `MaxOutputFaults` | 3, 2, 2, 2, 2 | a batch of two organisations that fails at one server and is cut at the other; a tenant told of twice |
| ejbca: certificates, requests, `MaxEjbcaFaults` | 1, 3, 1 | one request creates the client, one sleeps, one comes in between |
| keycloak: realms, sessions, `MaxTransactions`, `MaxRealmFaults` | 3 (one is master, one has an invalid name), 2, 5, 2 | a realm made after another was customised, removed, and made again |
| filters: subscribers, lists of conditions, field lists, payloads | 2, 9, 5, 9 | texts that differ only in order, operator, quotes or type; groups of one and of two fields, in both orders |
| v2k: publications, `MaxQueue`, `MaxBreaks` | 3, 1, 2 | more messages than the queue takes, twice disconnected |
| k2v: actuations, `MaxK2vBreaks` | 2, 3 | a consumer that starts while another ends |
| disconnect: clients, `MaxSessions` | 2 (one is no device), 4 | sessions taken over in a row |
| basic authentication: devices, requests, synchronisations, `MaxDeletions`, `MaxErrors` | 1, 1, 2, 1, 1 | overlapping runs beside a request; credentials of different devices do not meet. An answer that is cut, or no array, comes without a deletion of the tenant and without a failed call (`OneOddity`) |

Clients and devices are symmetric in `x509_requests`, where no property is
temporal. What `StoresAtomically` and `RemovalReleases` say is of steps; the models they are checked on have no symmetry. Deadlock is not checked: with the bounds used up, and with nothing
asked for, every one of these systems rests.

### Fairness

`AclFairSpec`: the event loop runs what is due (`Start`, `Ack`, timeouts while
Redis is away), Redis executes what it was sent and is eventually reachable
again, Kafka delivers to a registered callback and the client commits
periodically, and a process that ends is started again by its supervisor, as
the deployment does. Faults are not fair, and bounded. Malformed records are not
assumed away silently: `EventsConsumed` says `[]WellFormed =>`.

`KwFairSpec`: a request that has been admitted is worked off, the closing
handshake ends (the library closes the socket after 30 s if the peer does not), a
key with a lifetime expires, and a notice on its way is read. No fairness is
assumed of clients, of Kafka or of the recovery of a connection.

`RecoveryFairness`, of the component that runs: the event loop works (callbacks of
connections, the worker of the queue, an awaited `init` or `finish` of a consumer, which
ends or times out), VerneMQ accepts a client that connects, the health check and the cron job come round
again, Kafka delivers to a registered consumer, and a timer of the Erlang scheduler fires.
Connections that break, Kafka's availability, sessions of devices and requests owe nothing.
`BridgeRecovers` says `<>[]kafkaUp =>`, `ActuationsPublished` says `<>[](~disturbed) =>`, and
`RemovedDevicesLoseCredentials` is about a tenant that stays.

## 4. What is proved

All for every value of the constants that meets the assumptions in the modules.

`CertificateAclProofs`
- `AclTypeCorrect`: the type invariant, strengthened by what a query holds in
  each phase (`QueriesOK`): the owner a query fills in is an owner because only
  an answer with one reaches the phase that fills.
- `NoEventLost`: `[]CommitBehindRedis`. The commit reads acknowledgements, so
  the invariant is `DurabilityInv`: acknowledged offsets, and replies waiting to
  acknowledge theirs, are of records Redis has executed (`AcksBehindRedis`), and
  the committed prefix is. It survives the timeouts because an abandoned command yields no
  reply, and restarts because they drop acknowledgements and never Redis's state.
- `SubscriptionFollowsRedis`: `[]CallbackFollowsRedis`. The invariant
  `SubscriptionInv` relates the flag `suspended`, the connection and the callback
  also while the process starts, when a suspension may come before there is
  a callback to suspend.
- `AclStaysInStep`: `[]AclFollowsLog`. The property speaks of a consumer that has caught up; `ReplayInv`
  says, at any moment, for each record that decides on an owner, whether the consumer is done with it (committed, acknowledged or
  about to be acknowledged) or it is on its way to Redis as a command. While the process is not about to end, every record the
  consumer was given is one or the other (`NothingSkipped`). An entry of Redis that no query wrote is from some record, and of
  the partition of that record the consumer is done with none behind it (`RedisFits`); the same holds of every command (`CommandFits`), and of one partition
  they are in the order of the log, except those abandoned (`Precedes`). A restart replays from the committed offset: what was acknowledged and not
  committed is then no longer done, so an older outcome may stand in Redis for a while; the invariant says only that it is not older than
  anything done, and once all is done, nothing is later than it. Abandoned commands, which still
  run after a timeout, end the process in this code, and so are the reason why `NothingSkipped` is not claimed of a process about to end.

`IdentityProofs`
- `OvershootBounded`: `[]CaLimitOvershoot`. The invariant counts the requests in
  the window between a passed limit check and the save: CAs plus requests in the
  window never exceed limit + clients − 1. A request enters the window only
  when the CAs are below the limit, and then at most all clients are in it; the save moves one
  request out and one CA in. Assumed: clients are a finite, non-empty set.
- `TcaTypeCorrect` (`[]TcaTypeOK`), `LogStaysInStep` (`[]LogFollowsDb`), `OwnersAreAnnounced`
  (`[]EveryOwnerAnnounced`) and `DependentsStayTrusted` (`[]DependentsKeepCa`) follow from one invariant, `TcaInv`,
  of which `SvcInv` is about certificates and `CaSideInv` about CAs. The argument takes the records as a set
  (`Held`), since an update and a removal find theirs by identity. Needed beside the properties:
  `IdsOK`, that records have identities of their own, that the one a registration will save is new, and that the
  one a deletion holds is still of the certificate it read; `InStep(f)`, for a certificate that is neither contended nor
  lost, that at most one request is at work and what it knows: a registration that no record exists, a deletion that its
  record is the one there, a revocation that the last event says the owner it will take away, a notification that
  its event says what the records do; `OwnersSaid`, that an owner in a record was announced or is about to
  be; `CaIdsOK` and `CaKept`, that a request past its check still relies on a registered CA, and that one about
  to remove a CA still finds no certificate of it, unless the two overlapped. Taking the least of a set of places (`findOne`)
  rests on the well-foundedness of the naturals.
- `RedisFollowsDb`: `Spec => []AclMatchesDb`, of the two services joined: once the requests have ended and the consumer has caught up, Redis
  names the owner the database has, for a certificate on which requests followed one another without failure, that no query
  wrote, and whose events are in one partition. The invariant is `SvcInv` and `ReplayInv` of the two services, and between them
  `LastSaid`: the owner announced last is what the last record of some partition says. A step of the service leaves the log alone or
  appends one event and notes its owner (`ServiceMoves`); certificate-acl allows for any producer, so that its own
  proof covers that append. Assumed: partitions are finitely many (`PartitionsAreFinite`), so that counting one means that there is no other.

`KafkaWsProofs` — `KwInv` is `KwTypeOK`, the four properties below, `TicketInv` and `SessionsInv`.
- `KwTypeCorrect`; `SingleUse`: a ticket Redis holds was used less often than it was issued (`TicketInv`), so that the transaction which reads and
  deletes it can be followed by one more use.
- `SharingIsSound`: `[]SharingFollowsSessions`. The sessions served are those with a handler that are not closed or whose `close`
  came early; `SessionInv` says that only a finished request has a handler, that an early end is an end, and that a handler set on a closed
  websocket is early. The counts of a rule need that the sessions with a handler are finitely many, although `Sessions` need not be.
- `TenantsAreIsolated`: a foreign session whose websocket `onConnection` closed is subscribed all the same; it gets nothing because an
  open one with a handler is allowed on its topic.
- `ExpirationsEnd`: `[]NoStaleExpiration`.

`MqttProofs`
- `MessagesProducedOnce`: `[]ProducedOnce`. `V2kInv` says that a message is in one place of the bridge, once: in the queue, in a look-up or
  produced; and that what the broker would send without the flag `dup` is in none, which makes the test of that flag enough.
- `ConsumerIsKept`: `[]ConsumerFollowsConnection`. `K2vInv` says that, undisturbed, the bridge is at rest, awaits the
  consumer of its connection, or awaits the end of the one it had, and what `consumer`, `registered` and the flags are in each of the
  three. Assumed: `NoConsumer` is not a number, as `undefined` is no consumer.
- `TimersAreKept`: `[]TimersFollowSessions`. The timers of a client that was never taken over are exactly that of its session, and the
  table has it (`UntakenInv`); timers are of sessions that have begun (`TimersInv`), so the next session has none.
- `V2kTypeCorrect`, `K2vTypeCorrect`, `DisconnectTypeCorrect`: the types count. `QueueInv`: the length v2k-bridge keeps is that of its queue, which exceeds its
  limit by one message, and by one more for every connection made while it was over it (`overdrawn`). `ConsumersInv`, with the debt `Owed` to consumers still to be ended:
  every break makes at most two consumers, disturbed or not, and an actuation is in Kafka, published or dropped. `NumbersInv`: timers and table are of
  sessions VerneMQ has numbered.
- `BasicTypeCorrect`, `DevicesKeepCredentials`: `[]BasicTypeOK`, and the action property that is the safety half of
  `CredentialsFollowDevices`. Two things take credentials: a tenant that is forgotten, and the end of a synchronisation. `BasicInv` says that a tenant
  never there is known to nobody (`UnknownIsAbsent`), so that what wipes it implies a deletion (`DeletionsOnly`), and that what a
  run has on its list to remove is of devices that are gone for good (`RemovalsOnly`), however old the list. The type needs counts: records and
  the requests about to create one are never more than the requests, callbacks and the runs about to register one never more than the bound. Assumed: requests and runs are finitely many.
- `RecoveryTypeCorrect` (`[]RecoveryTypeOK`), `RecoveryStaysSound`: of the four side by side, every step is one of a single component's own or none, so the
  four invariants hold together, and with them `ProducedOnce`, `ConsumerFollowsConnection`, `TimersFollowSessions` and the action property on credentials.

`DeviceProofs`
- `OwnersAreDevices`: `[]OwnersExisted`, with the cache and the requests between an answer and its save: the devices they hold have existed.
- `RemovalsStayFinal`: `[]RemovalsAreFinal`. Identifiers may be drawn again, so the devices are told apart by their creation (`nth`).
  `BatchInv` says of a removal between its transaction and its event that this creation of the device has no row any more, that no
  removal of it was announced, and that no other removal is there with the same; and that what was announced to be removed is not living.
- `DecisionsStaySound`: `[]DecisionsAreSound`. `AgentInv` says that a key nothing has happened to is sound: its device, its
  credential and its tenant are as they should be, and the cache has the right entry of it or none (`KeysSound`); and of a request, by its
  phase, that the device it holds is that of its key unless the key is excused (`RequestSound`). Assumed: the marks `"none"` and
  `"unknown"` of the cache are no devices.
- `RemovedStayForgotten`: `[]RemovedDevicesForgotten`. The property says nothing until the events are written, so the invariant
  `RetrieverInv` is about what is still to come: the events being written are the last ones handled (`WritingFollowsLog`); a device announced
  and no longer there has its removal further on in the log (`LogTells`); a copied one has it among those not yet written
  (`CopySound`); one read from a page has it among those not yet handled, as none is handled during a load (`LoadSound`).
- `PagesCover`: `[]PagesCoverTheRange`. The property speaks of the end of a walk; `PagesInv` says what holds on the way, by the rank of a time among those
  of the range, the number of times that come before it in the reader's order. What is due has been shown or its rank is at least the
  offset of the next page (`ToCome`); what has been shown has a rank below it, even if it is no longer stored (`Passed`). New points only raise ranks, and
  raise those of what was shown only by overtaking; expiry, which takes the oldest, lowers none in a descending walk that it leaves
  there. The lemmas below it are about the operators: the ranks of n times are 0 to n - 1 (a pigeonhole), so that `Sorted`'s CHOOSE finds a time
  for each (`SortedByRank`), and a page cut out by limit and offset lists the ranks it spans (`PageLists`, `PageShows`). Assumed: a device has an attribute.
- `DeviceEventsTypeCorrect`, `BatchTypeCorrect`, `HttpTypeCorrect`, `RetrieverTypeCorrect`: types, from the invariants above.
- `DataTypeCorrect`: a page that is full was cut off early, so that a reader asks for the one after the last point in time at most; the authorizations in InfluxDB are
  no more than the flexible queries that have posted or are about to. A GraphQL query folds its attributes: that the function which `FoldSet` chooses
  exists, and that what it makes of any set of attributes is rows (`JoinExists`, `JoinsRows`), is shown by the least set for which it would
  not be. Assumed: attributes and flexible queries are finitely many.

`ConsumerProofs`
- `ConnectionsStayExclusive`: `[]ConnectionsAreExclusive`, with the uploads that hold a connection characterised by their step.
- `SlotsStayReturned`: `[]SlotsAreReturned`.
  The invariant counts: undelivered messages and claims that receive never exceed the slots, and an undelivered message is one that was fetched, so that the
  next is new. Assumed: partitions are finitely many.
- `MetricsReachOrganizations`: `[]MetricsReachTheirOrganization`. `CreatorInv`: the tenants the loop of the creator is past have their bucket, though
  their batch is not accepted. `WriterInv`: of the batch, what belongs to organisations the loop is past is in its organisation (or refused); in
  halves, one organisation is left, and the first half is written to it when the second goes.
- `ReportsKeepTheirFile`: `[]ReportsHaveTheirFile`. `ReportsInv` says what a worker between two steps may rely on: a report that still
  has its row has its file once it was uploaded, or had it when file-mgmt emptied the bucket (`Kept`), and its finished attempt once that was written; a report being erased has no row.
- `PointsStayKept`: `[]PointsAreKept`. `StorerInv` has a part for each of the three. `CallbacksKnown`: until InfluxDB is found unhealthy too
  early, a process that is ready has one registration, held or none. `OrgKnown`: an event handled alone knows the organisation there is,
  or that there is none. `PointsKnown`: a closed writer is one that an earlier removal could not close (`unclosed`) or of a process that ended with its buffers empty,
  and points are buffered only with InfluxDB there, a bucket and no removal under way, or are excused.
- `BucketsStaySound`: `[]BucketsAreSound`, from `FileInv`: the type, `RequestInv(u)` for each upload and `TenancyInv`. That a listed tenant has its bucket is not inductive: the handler of the event lists the
  tenant an await after it made the bucket, so the invariant says it of that phase too (`tenancy = "push"`), and that no other phase, nor the start, finds the tenant
  listed. For temporary objects `RequestInv` relates the phase of the request with its put, its answer and its rollback: one that was answered while its form is still received
  had its put refused, or is among those that may leave something (`leftover`).
- `FileMgmtImplementsStore`: `FileSpec => StoresAtomically`. The mapping takes the uploads not yet decided (`Pending`) to the
  `pending` of `FileStore`, and those that were answered with their copy on the way (`Overdue`) to its `late`. Each action is shown to put an upload of either kind in
  place (`Copies`, `LostCopy`), to refuse some, to discard the file, or to stutter. What it needs from the
  invariant: an upload that validates and was answered is one over the limit, and one that is not begun is undecided.
- `FileTypeCorrect`, `FtpTypeCorrect`, `TelegrafTypeCorrect`, `OutputsTypeCorrect`, `ReportsTypeCorrect`: types, from the invariants above. `StorerTypeCorrect` needs one
  of its own, `RegistrationsTyped`: a registration the storer holds is one that was counted, so that ending it never counts below zero.

`AuthorityProofs`
- `AuthorityStaysInStep`: `[]AuthorityIsInStep`. `EjbcaInv` adds: the client is not there while one is created; the serial a request asks for is
  fresh and its own until EJBCA answers; records are of issued certificates; and what a request must find on its list is
  removed, is on the latest list while the request reads it, and on the list it was given.
- `RealmsStayAsAnnounced`: `[]RealmsAreAsAnnounced`. An event is published before its transaction commits, so `KeycloakInv` speaks of the
  events that count, those neither rolled back nor of an open transaction: the last of a tenant says whether the realm is there
  (`TopicTells`), and a session that may still commit has its event behind them all (`EventAnnounced`). Sessions do not cross because a
  creation is alone with its name (`Exclusive`). That realms are whole rests on `CustomizationIsWhole`: what is imported from the shared
  representation has every client that a role of it names. Assumed: `NoRealm` is not the contents of a realm.
- `CertTypeCorrect`, `FilesStayInStep`: `[]CertTypeOK`, `[]FilesFollowProcess`. The property speaks of a process at rest, so `CertInv` is about what the
  jobs have still to do, their programs being sequences that every check lengthens. `Rules` holds of what is left of a program: what takes a file away is
  followed by what makes it again, the result of a fetch is used by the very next operation, and one job renews a key and a certificate
  once (lemma `RulesJoin`: rules survive what a check puts in front). `JobsInv` says which job may plan what, `InitAlone` that the
  start meets no other. Then each file is what is in memory or a job that will write it is under way, with the right value (`CaSettled`, `CrlSettled`,
  `BundleSettled`, `CertSettled`, `PairSettled`), as long as no step failed and no end overtook a job (`Calm`); `EndInv` is about what the
  end has still to unlink, the key last, so that a deletion that finds its file missing can only be the last. No induction over the programs was needed: they are
  only ever joined, cut at the head and asked what they contain. A job that ticks during the end is one the property excepts (`ragged`), so that `EndInv` has the end alone.
- `EjbcaTypeCorrect`, `KeycloakTypeCorrect`: types; the second needs `KeycloakRest`, that a creation under way is of a transaction that has made no realm yet.

`ServicesProofs`
- `SharedRulesAreInvisible`: `[]SharingIsInvisible`. What has to be shown is that requests with one fingerprint make the same filter. A fingerprint lists the
  canonical texts of the conditions, sorted and joined: lemmas on joined texts give back the texts, and lemmas on a stable sort
  that two lists with one sorted form hold the same elements as often. Conditions with one canonical text test the same thing, whatever order their
  values came in, and a filter passes a message if all its conditions do, in any order. Then `HeldInv` says of every rule kept that it was made of the request of somebody
  with its fingerprint, and `OpenInv` of every open subscriber that it runs the rule kept for the fingerprint of its request. Assumed: a text
  without a comma is one piece and two numbers have two texts (`TextsAreTold`); requests and messages have their shapes (`ShapesAreKept`). As long as a request
  holds a value or a group of fields with a comma the property claims nothing (section 3); of the other groups, lemma `ParentOfPiece` says that a piece
  selects the same wherever it stands, so that sorting the pieces does not change the mask (`MaskByPieces`).
- `RulesFollowSubscribers`: `[](HeldInv /\ OpenInv)`; `HeldInv` also says that a rule is counted as often as it is shared, at least once. `RulesTypeCorrect`: the type.
- `ServicesTypeCorrect` (`[]ServicesTypeOK`), and `ServicesKeepPromises`: the fifteen invariants the run checks and the refinement of `FileStore`, of the
  composition. They add nothing to what is proved of the services one by one but that `MCServices` puts them together as it should: lemma `ServicesBehaveAsAlone`, that
  a behaviour of the composition is one of each service's own specification, holds because the composition is written so.

### What is only model-checked

Liveness: `EventsConsumed`, `LifetimeWithoutOutage`, `RunningBridgeRecovers`, `RunningActuationsPublished`, `DevicesAreDisconnected` and the
`~>` half of `CredentialsFollowDevices`. Fairness and ENABLED are out of the prover's reach. Every invariant the passing runs check
is a theorem, and so is every property of steps, each with the exceptions it names.

The induction theorems of the library take an operator as a parameter, which the provers cannot be given. Where a definition computes over a
sequence or a set (`Sorted`, `FoldSet`, the joined texts), the argument is made for that definition alone: the
least counterexample, and why there is none.

### What the proofs told of the models

Where a proof did not go through because the model was too wide, the model was changed:
`DeviceData` let a flexible query with `MaxTime = 1` begin at a time that is not there, and did not say that attributes and queries are finitely many;
`RetrieverSync` allowed no load at all (`MaxLoads` is now positive).

## 5. What is not modelled

- In x509-identity-mgmt: the PATCH of a trusted CA's
  `allowAutoRegistration`; the CA limit −1 (none); the
  events on trusted CAs, which no other modelled service reads, beyond their
  being a step that may fail.
- In kafka-ws: the configuration that disables the lifetime, and a connection
  lost between the SET and the EXPIREAT of a key. `KafkaWs` lets any set of rules pass a message
  on (`Deliver`); which do is the subject of `ProcessingRules`.
- In kafka-ws's fields: a group within a group, and the wildcard `*`. That the fingerprint does not tell groups of several fields apart is
  in the model; what json-mask makes of a group within a group is not.
- In Keycloak: the renaming of a realm, which the provider does not listen to: nobody is told, and the tenant keeps its former name elsewhere.
- In telegraf's creator of organisations: the status codes configured as not to be retried, which count as success: an answer of 409 to the
  creation of a bucket is taken for one, which a fresh organisation does not give. `Refreshes` of the consumer always makes one: when it
  cannot, the next call on it panics and Telegraf ends, and when it finds no topics the sessions have no claims. The slots of `MaxUndelivered` are
  those of a session: messages of one that ended may still be undelivered when the next has slots of its own.
- In cert-sidecar: an end without SIGTERM's handlers, by SIGKILL or by the timeout of the shutdown, which deletes nothing.
- In `Reports` an upload to file-mgmt is one step, which may also come after file-mgmt emptied the bucket, when it may have no such tenant
  any more and refuse it; a report is then not recorded, which the model has as a failed upload.
- The entries of certificate-acl have no time to live in the model: expiry
  only turns a hit into a miss.
- In http-agent: the mode that takes the device from the parameters of the request.
- In VerneMQ: the rules on topics, which compare a topic with a user name and keep nothing.
- `CertificateService` takes EJBCA for granted, and `EjbcaFacade` the ownership events: each has the steps of a request
  that the other leaves out.
- In v2k-bridge: the tenants it keeps, with a session for each, to ask the device manager.
- One tenant stands for all where tenants share nothing (`HttpAgent`, `DeviceEvents`, `Storer`, `FileMgmt`,
  `BasicCredentials`, `Reports`, `RetrieverSync`, `DeviceBatch`, `FtpUpload`), one path for all in `FileMgmt`, one
  device in `DeviceData`.
- The components listed as `not_modelled` in `PROJECT.json`, with the reason: keycloak-proxy and
  history-proxy keep no state; the image of EJBCA, the load generator and the certificate tools are
  scripts; the keycloak sidecar repeats file-mgmt's handling of tenants without the bucket.

## 6. Plan

1. *(done)* Ownership: `OwnershipEvents`, `CertificateService`, `TrustedCAService`,
   `CertificateAcl`, `OwnershipPipeline`, and its theorems.
2. *(done)* `KafkaWs` and `ProcessingRules`.
3. *(done)* Device events: `DeviceEvents`, `HttpAgent`. The MQTT side: `V2kBridge`, `K2vBridge`,
   `DisconnectPlugin`. Synchronisations: `BasicCredentials`, `RetrieverSync`.
4. *(done)* Data: `Storer`, `DeviceData`, `TelegrafConsumer`, `FileMgmt` against `FileStore`, `FtpUpload`. The
   rest: `CertSidecar`, `DeviceBatch`, `Reports`, `KeycloakProvider`.
5. *(done)* Proofs about single services: the refinement of `FileStore`, kafka-ws, the MQTT side, devices and their certificates, the
   consumers, EJBCA; what requests on certificates and CAs leave in the database and the log (section 4).
6. *(done)* The proofs of `DecisionsAreSound`, `RemovedDevicesForgotten`, `RealmsAreAsAnnounced` and `PointsAreKept`.
7. *(done)* The proofs of `AclFollowsLog`, and with it of `AclMatchesDb`, from the database to Redis.
8. *(done)* The safety half of `CredentialsFollowDevices`, with runs of the synchronisation that overlap.
9. *(done)* `FilesFollowProcess`, with the sequences of operations the jobs are made of.
10. *(done)* `PagesCoverTheRange`, from the order of the rows up.
11. *(done)* The type invariants not proved before, `SharingIsInvisible`, and the composition of the services: no safety property of the passing runs is left without a theorem.

What could come next: the tenants of v2k-bridge with their sessions, the mode of http-agent that takes the device from the request, and the
events on trusted CAs, for each of which section 5 says what is left out.
